---- MODULE Spec2Model ----
(***************************************************************************)
(* Benchmark result store and recommendation engine of m-aider.            *)
(*                                                                         *)
(* Six specifications share this module:                                   *)
(*   Spec       the result store file under concurrent CLI processes       *)
(*              (benchmark_db.py: _ensure_database, _read_database,        *)
(*              _write_database, add_result, get_results), at the          *)
(*              granularity of the system calls the code issues;           *)
(*   SpecRec    the sequential recommendation path (recommendations.py     *)
(*              over get_results) on bounded stores;                       *)
(*   SpecQuery  the sequential query path (get_results,                    *)
(*              get_best_by_metric, get_coverage_report) on bounded        *)
(*              stores, malformed entries included;                        *)
(*   SpecExport export of the store to an output file;                     *)
(*   SpecModels the model catalog (benchmark_models.py): the selection of  *)
(*              models for a VRAM capacity and the size category of a      *)
(*              model id;                                                  *)
(*   SpecBench  one invocation of the benchmark command                    *)
(*              (commands/benchmark.py).                                   *)
(***************************************************************************)
EXTENDS Integers, Sequences, FiniteSets, TLC

(***************************************************************************)
(* Bounds of the concurrent store model.                                   *)
(***************************************************************************)
MaxAdds == 1
MaxQueries == 1

Writers == {"w1", "w2"}
Readers == {"r1"}
Procs == Writers \cup Readers

VARIABLES
    dbIno,      \* inode bound to db_path, 0 when the path does not exist
    tmpIno,     \* inode bound to db_path.with_suffix(".tmp"), 0 when absent
    content,    \* inode -> file content, a sequence of tokens
    lockSh,     \* inode -> processes holding flock LOCK_SH on it
    lockEx,     \* inode -> process holding flock LOCK_EX on it, or NoProc
    nextIno,    \* next unused inode number
    pc,         \* process -> position in the code
    op,         \* process -> operation in progress
    fd,         \* process -> inode of the file the process has open, 0 if none
    data,       \* process -> data["benchmarks"] held in memory
    buf,        \* process -> text still in the file object's buffer
    pos,        \* process -> file offset of the open temp file
    seen,       \* process -> text that the last json.load read
    todo,       \* process -> operations the process still issues
    added,      \* records whose add_result returned (history)
    hadStore,   \* whether db_path existed before any process started (history)
    started,    \* process -> how its current or last call started (history)
    stamp,      \* process -> number of the add -> timestamp of its record, 0 if none
    benchmarks, \* SpecRec: the stored benchmarks list
    out,        \* SpecRec: what the last operation returned
    dest        \* SpecExport: the file at the output path of export

storeVars == <<dbIno, tmpIno, content, lockSh, lockEx, nextIno, pc, op, fd,
               data, buf, pos, seen, todo, added, hadStore, started, stamp>>
recVars == <<benchmarks, out, dest>>
vars == <<storeVars, recVars>>

NoProc == "none"
MaxIno == 1 + Cardinality(Procs) * (1 + MaxAdds)
Inodes == 1..MaxIno

(***************************************************************************)
(* File text.  A store document is abstracted to a sequence of tokens: the *)
(* opening of the object (version and the start of the benchmarks list),   *)
(* one token per record, and the closing of the list and the object.       *)
(***************************************************************************)
NoId == <<>>
LBrace == [k |-> "{", id |-> NoId]
RBrace == [k |-> "}", id |-> NoId]
Nul == [k |-> "nul", id |-> NoId]
RecTok(r) == [k |-> "rec", id |-> r.id]
TokRec(t) == [id |-> t.id]

\* a create_result whose id does not depend on the process that draws it
create_result_shared_id(p, n) == [id |-> <<"w", n>>]

\* BenchmarkDatabase.create_result: a record with a fresh uuid4
create_result(p, n) == [id |-> <<p, n>>]

\* json.dump({"version": ..., "benchmarks": list}, f, indent=2)
JsonDump(list) == <<LBrace>> \o [i \in 1..Len(list) |-> RecTok(list[i])] \o <<RBrace>>

\* json.load accepts exactly one complete document
WellFormed(text) ==
    /\ Len(text) >= 2
    /\ text[1] = LBrace
    /\ text[Len(text)] = RBrace
    /\ \A i \in 2..(Len(text) - 1) : text[i].k = "rec"

\* a parse that loses the first record of the list
JsonLoad_drops_first(text) == [i \in 1..(Len(text) - 3) |-> TokRec(text[i + 2])]

\* json.load(f)["benchmarks"] of a well-formed text
JsonLoad(text) == [i \in 1..(Len(text) - 2) |-> TokRec(text[i + 1])]

\* write(2) of toks at offset at: a hole is filled with NUL bytes, text
\* beyond the written range stays
PWrite(text, at, toks) ==
    LET pad == [i \in 1..(IF at > Len(text) THEN at - Len(text) ELSE 0) |-> Nul]
        base == text \o pad
    IN  SubSeq(base, 1, at) \o toks \o SubSeq(base, at + Len(toks) + 1, Len(base))

Range(s) == {s[i] : i \in 1..Len(s)}

(***************************************************************************)
(* The store file under concurrent processes.  Every process constructs a  *)
(* BenchmarkDatabase on the same db_path and then issues add_result        *)
(* (writers) or get_results (readers) calls.                               *)
(***************************************************************************)
NoOut == [op |-> "none"]

\* no file at the output path
NoFile == [exists |-> FALSE, text |-> <<>>]

\* the processes start either before the store file exists or on a store
\* file that an earlier invocation left, here with an empty benchmarks list
StoreInit ==
    /\ hadStore \in BOOLEAN
    /\ dbIno = (IF hadStore THEN 1 ELSE 0)
    /\ tmpIno = 0
    /\ content = [i \in Inodes |-> IF hadStore /\ i = 1 THEN JsonDump(<<>>) ELSE <<>>]
    /\ lockSh = [i \in Inodes |-> {}]
    /\ lockEx = [i \in Inodes |-> NoProc]
    /\ nextIno = (IF hadStore THEN 2 ELSE 1)
    /\ pc = [p \in Procs |-> "init"]
    /\ op = [p \in Procs |-> "ensure"]
    /\ fd = [p \in Procs |-> 0]
    /\ data = [p \in Procs |-> <<>>]
    /\ buf = [p \in Procs |-> <<>>]
    /\ pos = [p \in Procs |-> 0]
    /\ seen = [p \in Procs |-> <<>>]
    /\ todo = [p \in Procs |-> IF p \in Writers THEN MaxAdds ELSE MaxQueries]
    /\ added = {}
    /\ started = [p \in Procs |-> [alone |-> FALSE, before |-> <<>>]]
    /\ stamp = [p \in Procs |-> [n \in 1..MaxAdds |-> 0]]

Init ==
    /\ StoreInit
    /\ benchmarks = <<>>
    /\ out = NoOut
    /\ dest = NoFile

\* _ensure_database: db_path.exists() is true, nothing is written
EnsureExists(p) ==
    /\ pc[p] = "init"
    /\ dbIno # 0
    /\ pc' = [pc EXCEPT ![p] = "idle"]
    /\ op' = [op EXCEPT ![p] = "none"]
    /\ UNCHANGED <<dbIno, tmpIno, content, lockSh, lockEx, nextIno, fd, data,
                   buf, pos, seen, todo, added>>

\* _ensure_database: db_path does not exist, the empty store is written
EnsureMissing(p) ==
    /\ pc[p] = "init"
    /\ dbIno = 0
    /\ pc' = [pc EXCEPT ![p] = "w_open"]
    /\ data' = [data EXCEPT ![p] = <<>>]
    /\ UNCHANGED <<dbIno, tmpIno, content, lockSh, lockEx, nextIno, op, fd,
                   buf, pos, seen, todo, added>>

\* _save_results_to_db: create_result builds the record of the run, with
\* its timestamp, before add_result is called
CreateResult(p) ==
    /\ pc[p] = "idle"
    /\ p \in Writers
    /\ todo[p] > 0
    /\ pc' = [pc EXCEPT ![p] = "created"]
    /\ UNCHANGED <<dbIno, tmpIno, content, lockSh, lockEx, nextIno, op, fd, data,
                   buf, pos, seen, todo, added>>

\* add_result / get_results enter _read_database: open(db_path, "r")
ReadOpen(p) ==
    /\ pc[p] = (IF p \in Writers THEN "created" ELSE "idle")
    /\ todo[p] > 0
    /\ dbIno # 0
    /\ op' = [op EXCEPT ![p] = IF p \in Writers THEN "add" ELSE "query"]
    /\ fd' = [fd EXCEPT ![p] = dbIno]
    /\ pc' = [pc EXCEPT ![p] = "r_lock"]
    /\ UNCHANGED <<dbIno, tmpIno, content, lockSh, lockEx, nextIno, data, buf,
                   pos, seen, todo, added>>

\* _read_database: fcntl.flock(f.fileno(), LOCK_SH) blocks while another
\* process holds LOCK_EX on the same file
ReadLock(p) ==
    /\ pc[p] = "r_lock"
    /\ lockEx[fd[p]] \in {NoProc, p}
    /\ lockSh' = [lockSh EXCEPT ![fd[p]] = @ \cup {p}]
    /\ pc' = [pc EXCEPT ![p] = "r_load"]
    /\ UNCHANGED <<dbIno, tmpIno, content, lockEx, nextIno, op, fd, data, buf,
                   pos, seen, todo, added>>

\* _read_database: json.load, the finally clause unlocks, the with block
\* closes.  add_result then appends its record; get_results returns.
ReadLoadOk(p) ==
    /\ pc[p] = "r_load"
    /\ WellFormed(content[fd[p]])
    /\ seen' = [seen EXCEPT ![p] = content[fd[p]]]
    /\ lockSh' = [lockSh EXCEPT ![fd[p]] = @ \ {p}]
    /\ fd' = [fd EXCEPT ![p] = 0]
    /\ IF op[p] = "add"
       THEN /\ data' = [data EXCEPT ![p] =
                    Append(JsonLoad(content[fd[p]]), create_result(p, todo[p]))]
            /\ pc' = [pc EXCEPT ![p] = "w_open"]
            /\ UNCHANGED <<op, todo>>
       ELSE /\ data' = [data EXCEPT ![p] = JsonLoad(content[fd[p]])]
            /\ pc' = [pc EXCEPT ![p] = "idle"]
            /\ op' = [op EXCEPT ![p] = "none"]
            /\ todo' = [todo EXCEPT ![p] = @ - 1]
    /\ UNCHANGED <<dbIno, tmpIno, content, lockEx, nextIno, buf, pos, added>>

\* _read_database: json.load raises JSONDecodeError on a text that is not
\* one complete document; the finally clause unlocks and the error leaves
\* add_result / get_results
ReadLoadFail(p) ==
    /\ pc[p] = "r_load"
    /\ ~WellFormed(content[fd[p]])
    /\ seen' = [seen EXCEPT ![p] = content[fd[p]]]
    /\ lockSh' = [lockSh EXCEPT ![fd[p]] = @ \ {p}]
    /\ fd' = [fd EXCEPT ![p] = 0]
    /\ pc' = [pc EXCEPT ![p] = "raised_decode"]
    /\ UNCHANGED <<dbIno, tmpIno, content, lockEx, nextIno, op, data, buf,
                   pos, todo, added>>

\* _write_database: open(temp_path, "w") creates the file or truncates the
\* existing one, before any lock is taken
WriteOpen(p) ==
    /\ pc[p] = "w_open"
    /\ IF tmpIno = 0
       THEN /\ tmpIno' = nextIno
            /\ nextIno' = nextIno + 1
            /\ fd' = [fd EXCEPT ![p] = nextIno]
            /\ content' = [content EXCEPT ![nextIno] = <<>>]
       ELSE /\ fd' = [fd EXCEPT ![p] = tmpIno]
            /\ content' = [content EXCEPT ![tmpIno] = <<>>]
            /\ UNCHANGED <<tmpIno, nextIno>>
    /\ pos' = [pos EXCEPT ![p] = 0]
    /\ pc' = [pc EXCEPT ![p] = "w_lock"]
    /\ UNCHANGED <<dbIno, lockSh, lockEx, op, data, buf, seen, todo, added>>

\* _write_database: fcntl.flock(f.fileno(), LOCK_EX) on the temp file
WriteLock(p) ==
    /\ pc[p] = "w_lock"
    /\ lockEx[fd[p]] \in {NoProc, p}
    /\ lockSh[fd[p]] \subseteq {p}
    /\ lockEx' = [lockEx EXCEPT ![fd[p]] = p]
    /\ pc' = [pc EXCEPT ![p] = "w_dump"]
    /\ UNCHANGED <<dbIno, tmpIno, content, lockSh, nextIno, op, fd, data, buf,
                   pos, seen, todo, added>>

\* _write_database: json.dump(data, f) under the lock, then the finally
\* clause unlocks.  The file object is buffered: the first k tokens reach
\* the file during the dump (full buffers), the rest stays in the buffer.
WriteDump(p) ==
    /\ pc[p] = "w_dump"
    /\ \E k \in 0..(Len(JsonDump(data[p])) - 1) :
          /\ content' = [content EXCEPT ![fd[p]] =
                           PWrite(@, pos[p], SubSeq(JsonDump(data[p]), 1, k))]
          /\ buf' = [buf EXCEPT ![p] =
                       SubSeq(JsonDump(data[p]), k + 1, Len(JsonDump(data[p])))]
          /\ pos' = [pos EXCEPT ![p] = @ + k]
    /\ lockEx' = [lockEx EXCEPT ![fd[p]] = NoProc]
    /\ pc' = [pc EXCEPT ![p] = "w_close"]
    /\ UNCHANGED <<dbIno, tmpIno, lockSh, nextIno, op, fd, data, seen, todo,
                   added>>

\* _write_database: leaving the with block closes the file, which flushes
\* the buffer at the file object's offset
WriteClose(p) ==
    /\ pc[p] = "w_close"
    /\ content' = [content EXCEPT ![fd[p]] = PWrite(@, pos[p], buf[p])]
    /\ buf' = [buf EXCEPT ![p] = <<>>]
    /\ pos' = [pos EXCEPT ![p] = 0]
    /\ fd' = [fd EXCEPT ![p] = 0]
    /\ pc' = [pc EXCEPT ![p] = "w_move"]
    /\ UNCHANGED <<dbIno, tmpIno, lockSh, lockEx, nextIno, op, data, seen,
                   todo, added>>

\* _write_database: shutil.move(temp_path, db_path) renames whatever file
\* temp_path names at that moment over db_path; add_result then returns
\* result.id, _ensure_database returns
MoveOk(p) ==
    /\ pc[p] = "w_move"
    /\ tmpIno # 0
    /\ dbIno' = tmpIno
    /\ tmpIno' = 0
    /\ pc' = [pc EXCEPT ![p] = "idle"]
    /\ IF op[p] = "add"
       THEN /\ added' = added \cup {data[p][Len(data[p])]}
            /\ todo' = [todo EXCEPT ![p] = @ - 1]
       ELSE UNCHANGED <<added, todo>>
    /\ op' = [op EXCEPT ![p] = "none"]
    /\ UNCHANGED <<content, lockSh, lockEx, nextIno, fd, data, buf, pos, seen>>

\* _write_database: shutil.move raises FileNotFoundError when another
\* process has already renamed the shared temp file away
MoveFail(p) ==
    /\ pc[p] = "w_move"
    /\ tmpIno = 0
    /\ pc' = [pc EXCEPT ![p] = "raised_move"]
    /\ UNCHANGED <<dbIno, tmpIno, content, lockSh, lockEx, nextIno, op, fd,
                   data, buf, pos, seen, todo, added>>

StoreStep(p) ==
    \/ EnsureExists(p)
    \/ EnsureMissing(p)
    \/ CreateResult(p)
    \/ ReadOpen(p)
    \/ ReadLock(p)
    \/ ReadLoadOk(p)
    \/ ReadLoadFail(p)
    \/ WriteOpen(p)
    \/ WriteLock(p)
    \/ WriteDump(p)
    \/ WriteClose(p)
    \/ MoveOk(p)
    \/ MoveFail(p)

\* history of a step of p: a call that p starts (add_result or get_results
\* entering _read_database) records the text of the store file, and is
\* alone until some other process takes a step
Started(p) ==
    [q \in Procs |->
        IF q = p
        THEN IF pc[p] = "idle" /\ dbIno # 0
             THEN [alone |-> TRUE, before |-> content[dbIno]]
             ELSE started[p]
        ELSE [alone |-> FALSE, before |-> <<>>]]

\* datetime.now(): later than every timestamp taken so far
Now ==
    1 + (CHOOSE t \in 0..(Cardinality(Procs) * MaxAdds) :
            /\ \A p \in Procs, n \in 1..MaxAdds : stamp[p][n] <= t
            /\ t = 0 \/ \E p \in Procs, n \in 1..MaxAdds : stamp[p][n] = t)

\* create_result: timestamp=datetime.now().isoformat() of the record that
\* a step of p creates
Stamped(p) ==
    IF p \in Writers /\ pc[p] = "idle" /\ todo[p] > 0
    THEN [stamp EXCEPT ![p][todo[p]] = Now]
    ELSE stamp

Next ==
    \E p \in Procs :
        /\ StoreStep(p)
        /\ started' = Started(p)
        /\ stamp' = Stamped(p)
        /\ UNCHANGED <<hadStore, recVars>>

Spec == Init /\ [][Next]_vars

\* the benchmarks list a query without filters returns from the store file
StoredList == IF dbIno # 0 /\ WellFormed(content[dbIno])
              THEN JsonLoad(content[dbIno]) ELSE <<>>

AllAddsReturned == \A w \in Writers : pc[w] = "idle" /\ todo[w] = 0

Raised(p) == pc[p] \in {"raised_decode", "raised_move"}

AllFinished == \A p \in Procs : Raised(p) \/ (pc[p] = "idle" /\ todo[p] = 0)

\* C1: on a store that existed before the processes started, once every
\* add of every process has returned without error, the store file parses
\* and holds every record that was added.
C1_NoAddLost ==
    (hadStore /\ AllAddsReturned) =>
        /\ dbIno # 0
        /\ WellFormed(content[dbIno])
        /\ added \subseteq Range(StoredList)

\* C2: on a store that existed before the processes started, every text
\* that json.load reads from the store file is one complete, well-formed
\* store document, and the file is well-formed once every process has
\* finished.
C2_ReadsWellFormed ==
    hadStore =>
        /\ \A p \in Procs : pc[p] # "raised_decode"
        /\ AllFinished => WellFormed(content[dbIno])

(***************************************************************************)
(* Stored entries.  Numbers are fixed point: hourly_cost in cents,         *)
(* tokens/sec in tenths, cost per 1K tokens in 1/10000 dollar.  Means and  *)
(* quotients are exact rationals [n, d] with d > 0, compared by cross      *)
(* multiplication (the code's floats are idealised to exact arithmetic).   *)
(* A string that the code concatenates is a sequence of tokens.            *)
(***************************************************************************)
MaxRecords == 3
MaxLimit == 2

TaskCategories == {"coding", "context_heavy", "reasoning"}

\* recommendations.py TaskType, BudgetConstraint, ModelSizePreference
TaskTypes == {"coding", "context_heavy", "reasoning", "mixed"}
BudgetConstraints == {"under_1", "1_to_3", "over_3", "no_constraint"}
ModelSizePreferences == {"smallest_viable", "balanced", "largest_available"}

\* an absent filter: None (and the empty string) is falsy in get_results.
\* gpu_type and model_category are token sequences, a task category is a
\* plain string.
NoFilter == <<>>
NoTask == ""

\* the fields of the BenchmarkResult dataclass
ResultFields == {"id", "timestamp", "gpu_type", "gpu_count", "vram_per_gpu",
                 "total_vram", "hourly_cost", "model_id", "model_category",
                 "vllm_config", "results_by_category", "summary", "tests"}

\* providers/linode.py GPU_TYPES: gpus and vram_per_gpu of a type
GpuInfo(gpu) ==
    IF gpu = <<"g1-gpu-rtx6000-2">> THEN [gpus |-> 2, vram_per_gpu |-> 48]
    ELSE IF gpu = <<"g2-gpu-rtx4000a2-s">> THEN [gpus |-> 2, vram_per_gpu |-> 20]
    ELSE [gpus |-> 1, vram_per_gpu |-> 0]

\* a model id as the sequence of its characters
Characters(model_id) ==
    IF model_id = "Qwen2.5-Coder-70B-AWQ" THEN
        <<"Q", "w", "e", "n", "2", ".", "5", "-", "C", "o", "d", "e", "r", "-", "7", "0", "B", "-", "A", "W", "Q">>
    ELSE IF model_id = "Llama-3.1-70B-AWQ" THEN
        <<"L", "l", "a", "m", "a", "-", "3", ".", "1", "-", "7", "0", "B", "-", "A", "W", "Q">>
    ELSE IF model_id = "Qwen2.5-Coder-32B-AWQ" THEN
        <<"Q", "w", "e", "n", "2", ".", "5", "-", "C", "o", "d", "e", "r", "-", "3", "2", "B", "-", "A", "W", "Q">>
    ELSE <<>>

\* str.lower on one character
LowerChar(c) ==
    CASE c = "A" -> "a" []
         c = "B" -> "b" []
         c = "C" -> "c" []
         c = "D" -> "d" []
         c = "E" -> "e" []
         c = "F" -> "f" []
         c = "G" -> "g" []
         c = "H" -> "h" []
         c = "I" -> "i" []
         c = "J" -> "j" []
         c = "K" -> "k" []
         c = "L" -> "l" []
         c = "M" -> "m" []
         c = "N" -> "n" []
         c = "O" -> "o" []
         c = "P" -> "p" []
         c = "Q" -> "q" []
         c = "R" -> "r" []
         c = "S" -> "s" []
         c = "T" -> "t" []
         c = "U" -> "u" []
         c = "V" -> "v" []
         c = "W" -> "w" []
         c = "X" -> "x" []
         c = "Y" -> "y" []
         c = "Z" -> "z" []
         OTHER -> c

\* model_id.lower()
Lower(chars) == [i \in 1..Len(chars) |-> LowerChar(chars[i])]

\* marker in text
RECURSIVE Contains(_, _)
Contains(text, marker) ==
    IF Len(text) < Len(marker) THEN FALSE
    ELSE IF SubSeq(text, 1, Len(marker)) = marker THEN TRUE
    ELSE Contains(Tail(text), marker)

\* a get_model_category that checks the small markers first
get_model_category_smallest_first(chars) ==
    LET model_id_lower == Lower(chars)
        Has(marker) == Contains(model_id_lower, marker)
    IN  IF Has(<<"3", "b">>) \/ Has(<<"1", "b">>) THEN "small"
        ELSE IF Has(<<"7", "b">>) \/ Has(<<"8", "b">>) THEN "7b"
        ELSE IF Has(<<"1", "4", "b">>) \/ Has(<<"1", "5", "b">>) THEN "14b"
        ELSE IF Has(<<"3", "0", "b">>) \/ Has(<<"3", "2", "b">>)
                  \/ Has(<<"3", "3", "b">>) THEN "30b"
        ELSE IF Has(<<"7", "0", "b">>) \/ Has(<<"7", "2", "b">>) THEN "70b"
        ELSE "unknown"

\* benchmark_models.py get_model_category, on the characters of the id
get_model_category(chars) ==
    LET model_id_lower == Lower(chars)
        Has(marker) == Contains(model_id_lower, marker)
    IN  IF Has(<<"7", "0", "b">>) \/ Has(<<"7", "2", "b">>) THEN "70b"
        ELSE IF Has(<<"3", "0", "b">>) \/ Has(<<"3", "2", "b">>)
                  \/ Has(<<"3", "3", "b">>) THEN "30b"
        ELSE IF Has(<<"1", "4", "b">>) \/ Has(<<"1", "5", "b">>) THEN "14b"
        ELSE IF Has(<<"7", "b">>) \/ Has(<<"8", "b">>) THEN "7b"
        ELSE IF Has(<<"3", "b">>) \/ Has(<<"1", "b">>) THEN "small"
        ELSE "unknown"

\* commands/benchmark.py calculate_cost_per_1k_tokens, in 1/10000 dollar:
\* (hourly_cost / (tokens_per_sec * 3600)) * 1000, 0 for no throughput
calculate_cost_per_1k_tokens(tps, cost) ==
    IF tps <= 0 THEN 0 ELSE (cost * 1000 * 1000) \div (tps * 360)

\* a create_result that stores vram_per_gpu as total_vram
StoredRecord_vram_of_one_gpu(id, ts, gpu, model_id, cost, tps, byCat) ==
    [ shape |-> "object",
      keys |-> ResultFields,
      id |-> id,
      timestamp |-> ts,
      gpu_type |-> gpu,
      gpu_count |-> GpuInfo(gpu).gpus,
      vram_per_gpu |-> GpuInfo(gpu).vram_per_gpu,
      total_vram |-> GpuInfo(gpu).vram_per_gpu,
      hourly_cost |-> cost,
      model_id |-> model_id,
      model_category |-> <<get_model_category(Characters(model_id))>>,
      rbc_is_map |-> TRUE,
      results_by_category |->
          [c \in DOMAIN byCat |->
              [avg_tokens_per_sec |-> byCat[c],
               cost_per_1k_tokens |-> calculate_cost_per_1k_tokens(byCat[c], cost)]],
      summary |-> [avg_tokens_per_sec |-> tps,
                   cost_per_1k_tokens |-> calculate_cost_per_1k_tokens(tps, cost)] ]

\* BenchmarkDatabase.create_result called as _save_results_to_db calls it,
\* then asdict: the stored JSON object.  byCat maps every task category the
\* run covered to its throughput, tps is the throughput of the summary.
\* shape, keys and rbc_is_map describe the JSON value: an object with
\* exactly the dataclass fields whose results_by_category is an object.
StoredRecord(id, ts, gpu, model_id, cost, tps, byCat) ==
    [ shape |-> "object",
      keys |-> ResultFields,
      id |-> id,
      timestamp |-> ts,
      gpu_type |-> gpu,
      gpu_count |-> GpuInfo(gpu).gpus,
      vram_per_gpu |-> GpuInfo(gpu).vram_per_gpu,
      total_vram |-> GpuInfo(gpu).gpus * GpuInfo(gpu).vram_per_gpu,
      hourly_cost |-> cost,
      model_id |-> model_id,
      model_category |-> <<get_model_category(Characters(model_id))>>,
      rbc_is_map |-> TRUE,
      results_by_category |->
          [c \in DOMAIN byCat |->
              [avg_tokens_per_sec |-> byCat[c],
               cost_per_1k_tokens |-> calculate_cost_per_1k_tokens(byCat[c], cost)]],
      summary |-> [avg_tokens_per_sec |-> tps,
                   cost_per_1k_tokens |-> calculate_cost_per_1k_tokens(tps, cost)] ]

(***************************************************************************)
(* BenchmarkDatabase.get_results                                           *)
(***************************************************************************)
\* benchmark.get(field): None for a key the object lacks
Get(e, field) == IF field \in e.keys THEN e[field] ELSE NoFilter

\* what the loop body does with one entry: "raise" (benchmark.get on an
\* entry that is no object is an AttributeError, `in` on a null or a number
\* is a TypeError, both outside the try), "skip" (continue, or the
\* TypeError of BenchmarkResult(**benchmark) caught) or "keep"
EntryOutcome(e, gpu_type, model_category, task_category) ==
    IF gpu_type # NoFilter /\ e.shape # "object" THEN "raise"
    ELSE IF gpu_type # NoFilter /\ Get(e, "gpu_type") # gpu_type THEN "skip"
    ELSE IF model_category # NoFilter /\ e.shape # "object" THEN "raise"
    ELSE IF model_category # NoFilter /\ Get(e, "model_category") # model_category
         THEN "skip"
    ELSE IF task_category # NoTask /\ e.shape # "object" THEN "raise"
    ELSE IF task_category # NoTask /\ "results_by_category" \in e.keys
                                     /\ ~e.rbc_is_map THEN "raise"
    ELSE IF task_category # NoTask
              /\ (IF "results_by_category" \in e.keys
                  THEN task_category \notin DOMAIN e.results_by_category ELSE TRUE)
         THEN "skip"
    ELSE IF e.shape # "object" \/ e.keys # ResultFields THEN "skip"
    ELSE "keep"

RECURSIVE KeptResults(_, _, _, _)
KeptResults(list, gpu_type, model_category, task_category) ==
    IF list = <<>> THEN <<>>
    ELSE LET rest == KeptResults(Tail(list), gpu_type, model_category, task_category)
         IN  IF EntryOutcome(Head(list), gpu_type, model_category, task_category) = "keep"
             THEN <<Head(list)>> \o rest ELSE rest

\* get_results: [raised |-> TRUE] when an exception leaves the loop,
\* otherwise the BenchmarkResult objects in stored order
get_results(list, gpu_type, model_category, task_category) ==
    IF \E i \in 1..Len(list) :
          EntryOutcome(list[i], gpu_type, model_category, task_category) = "raise"
    THEN [raised |-> TRUE, results |-> <<>>]
    ELSE [raised |-> FALSE,
          results |-> KeptResults(list, gpu_type, model_category, task_category)]

(***************************************************************************)
(* BenchmarkDatabase.get_best_by_metric                                    *)
(***************************************************************************)
Metrics == {"tokens_per_sec", "cost_per_1k_tokens", "cost_efficiency"}

\* get_best_by_metric.sort_key, as an exact rational [n, d]
sort_key(result, metric) ==
    IF metric = "tokens_per_sec" THEN [n |-> result.summary.avg_tokens_per_sec, d |-> 1]
    ELSE IF metric = "cost_per_1k_tokens"
         THEN [n |-> result.summary.cost_per_1k_tokens, d |-> 1]
    ELSE IF metric = "cost_efficiency"
         THEN IF result.hourly_cost > 0
              THEN [n |-> 10 * result.summary.avg_tokens_per_sec, d |-> result.hourly_cost]
              ELSE [n |-> 0, d |-> 1]
    ELSE [n |-> 0, d |-> 1]

\* an order that is descending whatever ascending says
SortsBefore_always_descending(a, b, metric, ascending) ==
    LET ka == sort_key(a, metric)
        kb == sort_key(b, metric)
    IN  kb.n * ka.d < ka.n * kb.d

\* a comes strictly before b in sorted(results, key=sort_key,
\* reverse=not ascending)
SortsBefore(a, b, metric, ascending) ==
    LET ka == sort_key(a, metric)
        kb == sort_key(b, metric)
    IN  IF ascending THEN ka.n * kb.d < kb.n * ka.d
        ELSE kb.n * ka.d < ka.n * kb.d

\* sorted() is stable, with reverse=True as well: elements of equal key
\* keep their order
RECURSIVE InsertSorted(_, _, _, _)
InsertSorted(sorted, r, metric, ascending) ==
    IF sorted = <<>> THEN <<r>>
    ELSE IF SortsBefore(r, Head(sorted), metric, ascending)
         THEN <<r>> \o sorted
         ELSE <<Head(sorted)>> \o InsertSorted(Tail(sorted), r, metric, ascending)

RECURSIVE SortedFrom(_, _, _, _)
SortedFrom(sorted, results, metric, ascending) ==
    IF results = <<>> THEN sorted
    ELSE SortedFrom(InsertSorted(sorted, Head(results), metric, ascending),
                    Tail(results), metric, ascending)

\* get_best_by_metric for limit >= 0: sorted_results is the whole sorted
\* list, results the slice returned
get_best_by_metric(list, metric, task_category, limit, ascending) ==
    LET got == get_results(list, NoFilter, NoFilter, task_category)
        sorted_results == SortedFrom(<<>>, got.results, metric, ascending)
    IN  IF got.raised THEN [raised |-> TRUE, sorted_results |-> <<>>, results |-> <<>>]
        ELSE [raised |-> FALSE, sorted_results |-> sorted_results,
              results |-> SubSeq(sorted_results, 1,
                                 IF limit < Len(sorted_results) THEN limit
                                 ELSE Len(sorted_results))]

(***************************************************************************)
(* BenchmarkDatabase.get_coverage_report                                   *)
(***************************************************************************)
\* a loop body that takes the timestamp of every result as last_run
CountResult_last_seen(config_counts, result) ==
    LET key == result.gpu_type \o <<"|">> \o result.model_category
        at == {i \in 1..Len(config_counts) : config_counts[i].key = key}
        entered == IF at = {}
                   THEN Append(config_counts,
                               [key |-> key, gpu_type |-> result.gpu_type,
                                model_category |-> result.model_category,
                                count |-> 0, last_run |-> result.timestamp])
                   ELSE config_counts
    IN  [i \in 1..Len(entered) |->
            IF entered[i].key = key
            THEN [entered[i] EXCEPT !.count = @ + 1, !.last_run = result.timestamp]
            ELSE entered[i]]

\* the loop body over results: config_counts is the dictionary as the
\* sequence of its items in insertion order.  Timestamps are isoformat
\* strings compared as strings, here integers in the same order.
CountResult(config_counts, result) ==
    LET key == result.gpu_type \o <<"|">> \o result.model_category
        at == {i \in 1..Len(config_counts) : config_counts[i].key = key}
        entered == IF at = {}
                   THEN Append(config_counts,
                               [key |-> key, gpu_type |-> result.gpu_type,
                                model_category |-> result.model_category,
                                count |-> 0, last_run |-> result.timestamp])
                   ELSE config_counts
    IN  [i \in 1..Len(entered) |->
            IF entered[i].key = key
            THEN [entered[i] EXCEPT
                     !.count = @ + 1,
                     !.last_run = IF result.timestamp > @ THEN result.timestamp ELSE @]
            ELSE entered[i]]

RECURSIVE CountAll(_, _)
CountAll(config_counts, results) ==
    IF results = <<>> THEN config_counts
    ELSE CountAll(CountResult(config_counts, Head(results)), Tail(results))

\* tested_configs.sort(key=lambda x: x["last_run"], reverse=True): stable,
\* an entry goes behind every entry whose last_run is not smaller
RECURSIVE InsertByLastRun(_, _)
InsertByLastRun(sorted, config) ==
    IF sorted = <<>> THEN <<config>>
    ELSE IF Head(sorted).last_run < config.last_run
         THEN <<config>> \o sorted
         ELSE <<Head(sorted)>> \o InsertByLastRun(Tail(sorted), config)

RECURSIVE SortByLastRun(_, _)
SortByLastRun(sorted, configs) ==
    IF configs = <<>> THEN sorted
    ELSE SortByLastRun(InsertByLastRun(sorted, Head(configs)), Tail(configs))

\* dict.values() entries carry no key
ConfigValue(c) ==
    [gpu_type |-> c.gpu_type, model_category |-> c.model_category,
     count |-> c.count, last_run |-> c.last_run]

get_coverage_report(list) ==
    LET results == get_results(list, NoFilter, NoFilter, NoTask).results
        config_counts == CountAll(<<>>, results)
        tested_configs ==
            SortByLastRun(<<>>, [i \in 1..Len(config_counts) |->
                                    ConfigValue(config_counts[i])])
    IN  [ tested_configs |-> tested_configs,
          total_benchmarks |-> Len(results),
          gpu_types_tested |->
              Cardinality({tested_configs[i].gpu_type : i \in 1..Len(tested_configs)}),
          gpu_types_total |-> 7 ]

(***************************************************************************)
(* BenchmarkDatabase.export.  The text of the output file is a sequence of *)
(* items: the document of json.dump, or a header and one row per result.   *)
(* The fixed-point numbers of the model have exactly the decimals that the *)
(* format strings print (.2f, .4f, .1f), so a printed number is the        *)
(* number.                                                                 *)
(***************************************************************************)
ExportFormats == {"json", "csv", "markdown"}

\* asdict(result)
AsDict(result) ==
    [f \in (DOMAIN result) \ {"shape", "keys", "rbc_is_map"} |-> result[f]]

\* _export_json: json.dump([asdict(result) ...], f, indent=2)
ExportJson(results) ==
    [exists |-> TRUE,
     text |-> <<"[">> \o [i \in 1..Len(results) |-> AsDict(results[i])] \o <<"]">>]

\* _export_csv: the header row, then one row per result
ExportCsv(results) ==
    [exists |-> TRUE,
     text |-> <<"ID,Timestamp,GPU Type,GPU Count,Total VRAM (GB),Model,Model Category,Avg Tokens/Sec,Cost per 1K Tokens,Hourly Cost,Tests Passed,Tests Total">>
              \o [i \in 1..Len(results) |->
                    <<results[i].id, results[i].timestamp, results[i].gpu_type,
                      results[i].gpu_count, results[i].total_vram,
                      results[i].model_id, results[i].model_category,
                      results[i].summary.avg_tokens_per_sec,
                      results[i].summary.cost_per_1k_tokens,
                      results[i].hourly_cost, 0, 0>>]]

\* _export_markdown: title, blank line, table header and rule, then one
\* row per result; the model ids of the model have no "/" and at most 30
\* characters, so model_name is the model id
ExportMarkdown(results) ==
    [exists |-> TRUE,
     text |-> <<"# Benchmark Results", "",
                "| GPU Type | GPUs | VRAM | Model | Tokens/Sec | Cost/1K | Hourly Cost | Tests |",
                "|----------|------|------|-------|------------|---------|-------------|-------|">>
              \o [i \in 1..Len(results) |->
                    <<results[i].gpu_type, results[i].gpu_count,
                      results[i].total_vram, results[i].model_id,
                      results[i].summary.avg_tokens_per_sec,
                      results[i].summary.cost_per_1k_tokens,
                      results[i].hourly_cost, 0, 0>>]]

\* an export that writes JSON for a format it does not know
export_json_by_default(list, format, file) ==
    LET results == get_results(list, NoFilter, NoFilter, NoTask).results
    IN  IF format = "csv" THEN [raised |-> "", dest |-> ExportCsv(results)]
        ELSE IF format = "markdown" THEN [raised |-> "", dest |-> ExportMarkdown(results)]
        ELSE [raised |-> "", dest |-> ExportJson(results)]

\* export: open(output_path, "w") replaces the file; an unknown format
\* raises ValueError before any file is opened
export(list, format, file) ==
    LET results == get_results(list, NoFilter, NoFilter, NoTask).results
    IN  IF format = "json" THEN [raised |-> "", dest |-> ExportJson(results)]
        ELSE IF format = "csv" THEN [raised |-> "", dest |-> ExportCsv(results)]
        ELSE IF format = "markdown" THEN [raised |-> "", dest |-> ExportMarkdown(results)]
        ELSE [raised |-> "ValueError", dest |-> file]

(***************************************************************************)
(* RecommendationEngine                                                    *)
(***************************************************************************)
Rat(n, d) == [n |-> n, d |-> d]
RatLess(a, b) == a.n * b.d < b.n * a.d
RatEq(a, b) == a.n * b.d = b.n * a.d

\* bands whose lowest one includes its upper end
matches_budget_inclusive(budget, cost) ==
    IF budget = "under_1" THEN cost <= 100
    ELSE IF budget = "1_to_3" THEN 100 <= cost /\ cost <= 300
    ELSE IF budget = "over_3" THEN cost > 300
    ELSE TRUE

\* _filter_by_budget.matches_budget
matches_budget(budget, cost) ==
    IF budget = "under_1" THEN cost < 100
    ELSE IF budget = "1_to_3" THEN 100 <= cost /\ cost <= 300
    ELSE IF budget = "over_3" THEN cost > 300
    ELSE TRUE

RECURSIVE _filter_by_budget(_, _)
_filter_by_budget(results, budget) ==
    IF budget = "no_constraint" THEN results
    ELSE IF results = <<>> THEN <<>>
    ELSE IF matches_budget(budget, Head(results).hourly_cost)
         THEN <<Head(results)>> \o _filter_by_budget(Tail(results), budget)
         ELSE _filter_by_budget(Tail(results), budget)

\* a grouping key that leaves the model category out
ConfigKey_gpu_only(r) == r.gpu_type \o <<"|">>

\* the dictionary key f"{result.gpu_type}|{result.model_category}"
ConfigKey(r) == r.gpu_type \o <<"|">> \o r.model_category

\* _group_by_config: the dictionary as the sequence of its (key, list)
\* items in insertion order
RECURSIVE GroupInto(_, _)
GroupInto(groups, results) ==
    IF results = <<>> THEN groups
    ELSE LET r == Head(results)
             key == ConfigKey(r)
             at == {i \in 1..Len(groups) : groups[i].key = key}
         IN  IF at = {}
             THEN GroupInto(Append(groups, [key |-> key, results |-> <<r>>]),
                            Tail(results))
             ELSE GroupInto([i \in 1..Len(groups) |->
                               IF i \in at
                               THEN [groups[i] EXCEPT !.results = Append(@, r)]
                               ELSE groups[i]],
                            Tail(results))

_group_by_config(results) == GroupInto(<<>>, results)

\* calculate_cost_efficiency, in tokens/sec per dollar/hour
calculate_cost_efficiency(tokens_per_sec, hourly_cost) ==
    IF hourly_cost <= 0 THEN Rat(0, 1)
    ELSE Rat(10 * tokens_per_sec.n, tokens_per_sec.d * hourly_cost)

\* a confidence scale on which two runs already count as High
calculate_confidence_two_is_high(num_runs) ==
    IF num_runs >= 2 THEN <<"High", "green">>
    ELSE IF num_runs = 1 THEN <<"Low", "red">>
    ELSE <<"None", "dim">>

\* calculate_confidence
calculate_confidence(num_runs) ==
    IF num_runs >= 3 THEN <<"High", "green">>
    ELSE IF num_runs = 2 THEN <<"Medium", "yellow">>
    ELSE IF num_runs = 1 THEN <<"Low", "red">>
    ELSE <<"None", "dim">>

RECURSIVE SumOf(_, _)
SumOf(results, field) ==
    IF results = <<>> THEN 0
    ELSE Head(results).summary[field] + SumOf(Tail(results), field)

\* a recommendation that takes throughput and cost-per-1K from the
\* representative record alone
_create_recommendation_primary_only(results, task_category) ==
    LET primary == results[Len(results)]
        avg_tps == Rat(primary.summary.avg_tokens_per_sec, 1)
        avg_cost_1k == Rat(primary.summary.cost_per_1k_tokens, 1)
        num_runs == Len(results)
        confidence == calculate_confidence(num_runs)
    IN  [ gpu_type |-> primary.gpu_type,
          gpu_count |-> primary.gpu_count,
          total_vram |-> primary.total_vram,
          model_id |-> primary.model_id,
          model_category |-> primary.model_category,
          avg_tokens_per_sec |-> avg_tps,
          cost_per_1k_tokens |-> avg_cost_1k,
          hourly_cost |-> primary.hourly_cost,
          cost_efficiency |-> calculate_cost_efficiency(avg_tps, primary.hourly_cost),
          confidence_level |-> confidence[1],
          confidence_color |-> confidence[2],
          num_benchmark_runs |-> num_runs,
          task_category |-> task_category,
          notes |-> <<>> ]

\* a recommendation whose identity fields come from the first record of
\* the group
_create_recommendation_first_record(results, task_category) ==
    LET primary == results[1]
        avg_tps == Rat(SumOf(results, "avg_tokens_per_sec"), Len(results))
        avg_cost_1k == Rat(SumOf(results, "cost_per_1k_tokens"), Len(results))
        num_runs == Len(results)
        confidence == calculate_confidence(num_runs)
    IN  [ gpu_type |-> primary.gpu_type,
          gpu_count |-> primary.gpu_count,
          total_vram |-> primary.total_vram,
          model_id |-> primary.model_id,
          model_category |-> primary.model_category,
          avg_tokens_per_sec |-> avg_tps,
          cost_per_1k_tokens |-> avg_cost_1k,
          hourly_cost |-> primary.hourly_cost,
          cost_efficiency |-> calculate_cost_efficiency(avg_tps, primary.hourly_cost),
          confidence_level |-> confidence[1],
          confidence_color |-> confidence[2],
          num_benchmark_runs |-> num_runs,
          task_category |-> task_category,
          notes |-> <<>> ]

\* _create_recommendation of a non-empty group
_create_recommendation(results, task_category) ==
    LET primary == results[Len(results)]
        avg_tps == Rat(SumOf(results, "avg_tokens_per_sec"), Len(results))
        avg_cost_1k == Rat(SumOf(results, "cost_per_1k_tokens"), Len(results))
        num_runs == Len(results)
        confidence == calculate_confidence(num_runs)
        notes == (IF num_runs = 1 THEN <<"Single benchmark - results may vary">>
                  ELSE IF num_runs = 2 THEN <<"Based on limited data (2 runs)">>
                  ELSE <<>>)
                 \o (IF task_category = "mixed"
                     THEN <<"Averaged across all task categories">> ELSE <<>>)
    IN  [ gpu_type |-> primary.gpu_type,
          gpu_count |-> primary.gpu_count,
          total_vram |-> primary.total_vram,
          model_id |-> primary.model_id,
          model_category |-> primary.model_category,
          avg_tokens_per_sec |-> avg_tps,
          cost_per_1k_tokens |-> avg_cost_1k,
          hourly_cost |-> primary.hourly_cost,
          cost_efficiency |-> calculate_cost_efficiency(avg_tps, primary.hourly_cost),
          confidence_level |-> confidence[1],
          confidence_color |-> confidence[2],
          num_benchmark_runs |-> num_runs,
          task_category |-> task_category,
          notes |-> notes ]

\* rank_key.confidence_priority
confidence_priority(level) ==
    IF level = "High" THEN 0 ELSE IF level = "Medium" THEN 1
    ELSE IF level = "Low" THEN 2 ELSE 3

\* rank_key.vram_priority
vram_priority(rec, model_size_pref) ==
    IF model_size_pref = "smallest_viable" THEN 0 - rec.total_vram
    ELSE IF model_size_pref = "largest_available" THEN rec.total_vram
    ELSE IF 72 - rec.total_vram < 0 THEN rec.total_vram - 72 ELSE 72 - rec.total_vram

\* a key that compares cost-efficiency before confidence
RankKeyLess_efficiency_first(a, b, model_size_pref) ==
    LET ca == confidence_priority(a.confidence_level)
        cb == confidence_priority(b.confidence_level)
        va == vram_priority(a, model_size_pref)
        vb == vram_priority(b, model_size_pref)
    IN  IF ~RatEq(a.cost_efficiency, b.cost_efficiency)
        THEN RatLess(b.cost_efficiency, a.cost_efficiency)
        ELSE IF ca # cb THEN ca < cb
        ELSE IF va # vb THEN va < vb
        ELSE RatLess(b.avg_tokens_per_sec, a.avg_tokens_per_sec)

\* a key whose cost-efficiency term is not negated
RankKeyLess_efficiency_ascending(a, b, model_size_pref) ==
    LET ca == confidence_priority(a.confidence_level)
        cb == confidence_priority(b.confidence_level)
        va == vram_priority(a, model_size_pref)
        vb == vram_priority(b, model_size_pref)
    IN  IF ca # cb THEN ca < cb
        ELSE IF ~RatEq(a.cost_efficiency, b.cost_efficiency)
             THEN RatLess(a.cost_efficiency, b.cost_efficiency)
        ELSE IF va # vb THEN va < vb
        ELSE RatLess(b.avg_tokens_per_sec, a.avg_tokens_per_sec)

\* rank_key(a) < rank_key(b): the tuples (confidence_priority,
\* -cost_efficiency, vram_priority, -avg_tokens_per_sec) compared in order
RankKeyLess(a, b, model_size_pref) ==
    LET ca == confidence_priority(a.confidence_level)
        cb == confidence_priority(b.confidence_level)
        va == vram_priority(a, model_size_pref)
        vb == vram_priority(b, model_size_pref)
    IN  IF ca # cb THEN ca < cb
        ELSE IF ~RatEq(a.cost_efficiency, b.cost_efficiency)
             THEN RatLess(b.cost_efficiency, a.cost_efficiency)
        ELSE IF va # vb THEN va < vb
        ELSE RatLess(b.avg_tokens_per_sec, a.avg_tokens_per_sec)

\* list.sort(key=rank_key) is stable: an element goes behind every element
\* whose key is not greater
RECURSIVE InsertRanked(_, _, _)
InsertRanked(sorted, rec, model_size_pref) ==
    IF sorted = <<>> THEN <<rec>>
    ELSE IF RankKeyLess(rec, Head(sorted), model_size_pref)
         THEN <<rec>> \o sorted
         ELSE <<Head(sorted)>> \o InsertRanked(Tail(sorted), rec, model_size_pref)

RECURSIVE RankFrom(_, _, _)
RankFrom(sorted, recommendations, model_size_pref) ==
    IF recommendations = <<>> THEN sorted
    ELSE RankFrom(InsertRanked(sorted, Head(recommendations), model_size_pref),
                  Tail(recommendations), model_size_pref)

_rank_recommendations(recommendations, model_size_pref) ==
    RankFrom(<<>>, recommendations, model_size_pref)

\* a slice that keeps the last limit entries
Truncate_tail(list, limit) ==
    SubSeq(list, IF limit < Len(list) THEN Len(list) - limit + 1 ELSE 1, Len(list))

\* recommendations[:limit] for limit >= 0
Truncate(list, limit) == SubSeq(list, 1, IF limit < Len(list) THEN limit ELSE Len(list))

\* recommend: raised when get_results raises; ranked is the list before
\* the final truncation, recs the list returned
recommend(list, task_type, budget_constraint, model_size_pref, limit) ==
    LET task_category == IF task_type = "mixed" THEN NoTask ELSE task_type
        got == get_results(list, NoFilter, NoFilter, task_category)
        results == _filter_by_budget(got.results, budget_constraint)
        config_groups == _group_by_config(results)
        recommendations ==
            [i \in 1..Len(config_groups) |->
                _create_recommendation(config_groups[i].results,
                    IF task_category = NoTask THEN "mixed" ELSE task_category)]
        ranked == _rank_recommendations(recommendations, model_size_pref)
    IN  IF got.raised THEN [raised |-> TRUE, ranked |-> <<>>, recs |-> <<>>]
        ELSE IF got.results = <<>> \/ results = <<>>
             THEN [raised |-> FALSE, ranked |-> <<>>, recs |-> <<>>]
        ELSE [raised |-> FALSE, ranked |-> ranked, recs |-> Truncate(ranked, limit)]

(***************************************************************************)
(* The sequential store and recommendation path: one CLI invocation at a   *)
(* time saves a benchmark run, queries the store or asks for               *)
(* recommendations, and returns.  At most MaxRecords runs are saved on top *)
(* of the store that earlier invocations left.                             *)
(***************************************************************************)
G1 == <<"g1-gpu-rtx6000-2">>
G2 == <<"g2-gpu-rtx4000a2-s">>

Run(gpu, model_id, cost, tps, byCat) ==
    [gpu |-> gpu, model_id |-> model_id, cost |-> cost, tps |-> tps, byCat |-> byCat]

Coding(tps) == [c \in {"coding"} |-> tps]
CodingReasoning(a, b) == [c \in {"coding", "reasoning"} |-> IF c = "coding" THEN a ELSE b]

\* the benchmark runs a session can save: hardware type, model, hourly
\* cost in cents, summary throughput in tenths of tokens/sec, and the
\* throughput per task category
RunInputs ==
    { Run(G1, "Qwen2.5-Coder-70B-AWQ", 300, 450, Coding(450)),
      Run(G1, "Qwen2.5-Coder-70B-AWQ", 300, 460, CodingReasoning(440, 480)),
      Run(G2, "Qwen2.5-Coder-32B-AWQ", 100, 150, CodingReasoning(160, 140)),
      Run(G1, "Qwen2.5-Coder-32B-AWQ", 0, 450, Coding(450)),
      Run(G1, "Qwen2.5-Coder-32B-AWQ", -50, 300, Coding(300)),
      Run(G2, "Llama-3.1-70B-AWQ", 350, 460, Coding(460)) }

\* the record that saving run as the n-th record of the store leaves
SavedRun(n, run) ==
    StoredRecord(n, n, run.gpu, run.model_id, run.cost, run.tps, run.byCat)

SeedRun(tps) == Run(G2, "Llama-3.1-70B-AWQ", 300, tps, CodingReasoning(tps + 10, tps - 10))

\* a store holding three runs of one configuration, 44, 45 and 46 tokens/sec
SeedStore == <<SavedRun(1, SeedRun(440)), SavedRun(2, SeedRun(450)),
               SavedRun(3, SeedRun(460))>>

\* entries that are no BenchmarkResult: a JSON string, an object lacking
\* hourly_cost, an object with the extra key linode_id of an older schema,
\* and an object whose results_by_category is null
NotObject == [SavedRun(0, SeedRun(450)) EXCEPT !.shape = "string"]
MissingField == [SavedRun(0, SeedRun(450)) EXCEPT !.keys = ResultFields \ {"hourly_cost"}]
ExtraField == [SavedRun(0, SeedRun(450)) EXCEPT !.keys = ResultFields \cup {"linode_id"}]
RbcNull == [SavedRun(0, SeedRun(450)) EXCEPT !.rbc_is_map = FALSE]

WellFormedEntry(e) == e.shape = "object" /\ e.keys = ResultFields /\ e.rbc_is_map

\* the stores the recommendation path starts on
RecStores == {<<>>, SeedStore, <<NotObject>>}

\* a store whose records are not in timestamp order (runs merged from
\* another machine): 5, 3, 4
UnorderedStore ==
    <<StoredRecord(1, 5, G1, "Qwen2.5-Coder-70B-AWQ", 300, 450, Coding(450)),
      StoredRecord(2, 3, G1, "Qwen2.5-Coder-70B-AWQ", 300, 440, Coding(440)),
      StoredRecord(3, 4, G2, "Qwen2.5-Coder-32B-AWQ", 100, 150, Coding(150))>>

\* the stores the query path starts on
QueryStores == {<<>>, <<NotObject>>, <<MissingField, ExtraField>>,
                <<SavedRun(1, SeedRun(450)), RbcNull>>, UnorderedStore}

RecInit ==
    /\ StoreInit
    /\ hadStore = TRUE
    /\ benchmarks \in RecStores
    /\ out = NoOut
    /\ dest = NoFile

QueryInit ==
    /\ StoreInit
    /\ hadStore = TRUE
    /\ benchmarks \in QueryStores
    /\ out = NoOut
    /\ dest = NoFile

\* _save_results_to_db: create_result with a fresh id and the current
\* time, then add_result with no other process at the store
AddResult(run) ==
    /\ out = NoOut
    /\ Cardinality(added) < MaxRecords
    /\ LET id == Len(benchmarks) + 1
       IN  /\ benchmarks' = Append(benchmarks, SavedRun(id, run))
           /\ added' = added \cup {create_result("cli", id)}
           /\ out' = [op |-> "add", id |-> id]
    /\ UNCHANGED dest

\* BenchmarkDatabase.get_results
Query(gpu_type, model_category, task_category) ==
    /\ out = NoOut
    /\ LET r == get_results(benchmarks, gpu_type, model_category, task_category)
       IN  out' = [op |-> "query", gpu_type |-> gpu_type,
                   model_category |-> model_category,
                   task_category |-> task_category,
                   raised |-> r.raised, results |-> r.results]
    /\ UNCHANGED <<benchmarks, added, dest>>

\* RecommendationEngine.recommend
Recommend(task_type, budget_constraint, model_size_pref, limit) ==
    /\ out = NoOut
    /\ LET r == recommend(benchmarks, task_type, budget_constraint,
                          model_size_pref, limit)
       IN  out' = [op |-> "recommend", task_type |-> task_type,
                   budget |-> budget_constraint, pref |-> model_size_pref,
                   limit |-> limit, raised |-> r.raised, ranked |-> r.ranked,
                   recs |-> r.recs]
    /\ UNCHANGED <<benchmarks, added, dest>>

\* BenchmarkDatabase.get_best_by_metric
BestByMetric(metric, task_category, limit, ascending) ==
    /\ out = NoOut
    /\ LET r == get_best_by_metric(benchmarks, metric, task_category, limit, ascending)
       IN  out' = [op |-> "best", metric |-> metric,
                   task_category |-> task_category, limit |-> limit,
                   ascending |-> ascending, raised |-> r.raised,
                   sorted_results |-> r.sorted_results, results |-> r.results]
    /\ UNCHANGED <<benchmarks, added, dest>>

\* BenchmarkDatabase.get_coverage_report
Coverage ==
    /\ out = NoOut
    /\ out' = [op |-> "coverage", report |-> get_coverage_report(benchmarks)]
    /\ UNCHANGED <<benchmarks, added, dest>>

\* BenchmarkDatabase.export
Export(format) ==
    /\ out = NoOut
    /\ LET r == export(benchmarks, format, dest)
       IN  /\ out' = [op |-> "export", format |-> format, raised |-> r.raised]
           /\ dest' = r.dest
    /\ UNCHANGED <<benchmarks, added>>

\* the caller takes the result and the invocation ends
Return ==
    /\ out # NoOut
    /\ out' = NoOut
    /\ UNCHANGED <<benchmarks, added, dest>>

otherStoreVars == <<dbIno, tmpIno, content, lockSh, lockEx, nextIno, pc, op, fd,
                    data, buf, pos, seen, todo, hadStore, started, stamp>>

RecNext ==
    /\ \/ \E run \in RunInputs : AddResult(run)
       \/ \E t \in TaskTypes, b \in BudgetConstraints, s \in ModelSizePreferences,
             l \in 1..MaxLimit : Recommend(t, b, s, l)
       \/ Return
    /\ UNCHANGED otherStoreVars

SpecRec == RecInit /\ [][RecNext]_vars

QueryNext ==
    /\ \/ \E run \in RunInputs : AddResult(run)
       \/ \E g \in {NoFilter, G1, G2}, c \in {NoFilter, <<"30b">>, <<"70b">>},
             t \in {NoTask} \cup TaskCategories : Query(g, c, t)
       \/ \E m \in Metrics, t \in {NoTask, "reasoning"}, l \in 1..MaxLimit,
             a \in BOOLEAN : BestByMetric(m, t, l, a)
       \/ Coverage
       \/ Return
    /\ UNCHANGED otherStoreVars

SpecQuery == QueryInit /\ [][QueryNext]_vars

\* the export path: runs are saved and the store is exported, to an
\* output path that may hold a file already
ExportStores == {<<>>, <<SavedRun(1, SeedRun(450)), ExtraField>>}

ExportRuns ==
    { Run(G1, "Qwen2.5-Coder-70B-AWQ", 300, 450, Coding(450)),
      Run(G2, "Qwen2.5-Coder-32B-AWQ", 100, 150, CodingReasoning(160, 140)),
      Run(G1, "Qwen2.5-Coder-32B-AWQ", 0, 450, Coding(450)) }

OldFile == [exists |-> TRUE, text |-> <<"notes">>]

ExportInit ==
    /\ StoreInit
    /\ hadStore = TRUE
    /\ benchmarks \in ExportStores
    /\ out = NoOut
    /\ dest \in {NoFile, OldFile}

ExportNext ==
    /\ \/ \E run \in ExportRuns : AddResult(run)
       \/ \E f \in ExportFormats \cup {"xml", "JSON"} : Export(f)
       \/ Return
    /\ UNCHANGED otherStoreVars

SpecExport == ExportInit /\ [][ExportNext]_vars

(***************************************************************************)
(* benchmark_models.py: the model catalog and the selection of models for  *)
(* a VRAM capacity.                                                        *)
(***************************************************************************)
MaxVram == 160

ModelConfig(id, category, quantization, min_vram_gb) ==
    [id |-> id, category |-> category, quantization |-> quantization,
     min_vram_gb |-> min_vram_gb]

\* MODEL_CATEGORIES, in the order in which iterating the dictionary and its
\* lists yields the models
MODEL_CATEGORIES ==
    << ModelConfig("Qwen/Qwen2.5-Coder-7B-Instruct", "7b", "full", 16),
       ModelConfig("deepseek-ai/deepseek-coder-7b-instruct-v1.5", "7b", "full", 16),
       ModelConfig("Qwen/Qwen2.5-Coder-14B-Instruct-AWQ", "14b", "awq", 18),
       ModelConfig("Qwen/Qwen2.5-Coder-14B-Instruct", "14b", "full", 32),
       ModelConfig("Qwen/Qwen2.5-Coder-32B-Instruct-AWQ", "30b", "awq", 35),
       ModelConfig("deepseek-ai/deepseek-coder-33b-instruct", "30b", "full", 70),
       ModelConfig("Qwen/Qwen2.5-72B-Instruct-AWQ", "70b", "awq", 70),
       ModelConfig("deepseek-ai/DeepSeek-Coder-V2-Instruct", "70b", "full", 140) >>

IsQuantized(model) == model.quantization \in {"awq", "gptq"}

\* get_recommended_models.sort_key(a) < sort_key(b): the tuples
\* (not is_quantized, -min_vram_gb), or (is_quantized, -min_vram_gb)
ModelKeyLess(a, b, prefer_quantized) ==
    LET fa == IF prefer_quantized THEN ~IsQuantized(a) ELSE IsQuantized(a)
        fb == IF prefer_quantized THEN ~IsQuantized(b) ELSE IsQuantized(b)
    IN  IF fa # fb THEN fb ELSE b.min_vram_gb < a.min_vram_gb

RECURSIVE InsertModel(_, _, _)
InsertModel(sorted, model, prefer_quantized) ==
    IF sorted = <<>> THEN <<model>>
    ELSE IF ModelKeyLess(model, Head(sorted), prefer_quantized)
         THEN <<model>> \o sorted
         ELSE <<Head(sorted)>> \o InsertModel(Tail(sorted), model, prefer_quantized)

RECURSIVE SortModels(_, _, _)
SortModels(sorted, models, prefer_quantized) ==
    IF models = <<>> THEN sorted
    ELSE SortModels(InsertModel(sorted, Head(models), prefer_quantized),
                    Tail(models), prefer_quantized)

get_recommended_models(vram_gb, prefer_quantized) ==
    SortModels(<<>>,
               SelectSeq(MODEL_CATEGORIES, LAMBDA m : m.min_vram_gb <= vram_gb),
               prefer_quantized)

category_order == <<"70b", "30b", "14b", "7b">>

\* _group_models_by_category(models).get(category, [])
ByCategory(models, category) == SelectSeq(models, LAMBDA m : m.category = category)

\* _select_primary_quantized, from position k of category_order on
RECURSIVE SelectPrimaryFrom(_, _)
SelectPrimaryFrom(models, k) ==
    IF k > Len(category_order) THEN <<>>
    ELSE LET quantized == SelectSeq(ByCategory(models, category_order[k]), IsQuantized)
         IN  IF quantized # <<>> THEN <<quantized[1]>>
             ELSE SelectPrimaryFrom(models, k + 1)

_select_primary_quantized(models) == SelectPrimaryFrom(models, 1)

\* _append_full_precision, from position k of category_order on
RECURSIVE AppendFullFrom(_, _, _)
AppendFullFrom(models, selected, k) ==
    IF k > Len(category_order) THEN selected
    ELSE LET full_precision ==
                 SelectSeq(ByCategory(models, category_order[k]),
                           LAMBDA m : m.quantization = "full")
         IN  IF full_precision # <<>>
                   /\ \A i \in 1..Len(selected) : selected[i] # full_precision[1]
             THEN Append(selected, full_precision[1])
             ELSE AppendFullFrom(models, selected, k + 1)

_append_full_precision(models, selected) ==
    IF Len(selected) >= 3 THEN selected ELSE AppendFullFrom(models, selected, 1)

select_models_for_vram(vram_gb) ==
    LET all_suitable == get_recommended_models(vram_gb, TRUE)
        primary == _select_primary_quantized(all_suitable)
        selected == IF vram_gb >= 80 THEN _append_full_precision(all_suitable, primary)
                    ELSE primary
    IN  IF all_suitable = <<>> THEN <<>>
        ELSE SubSeq(selected, 1, IF Len(selected) < 3 THEN Len(selected) ELSE 3)

\* the benchmark command asks for the models of a VRAM capacity
SelectModels(vram_gb) ==
    /\ out = NoOut
    /\ out' = [op |-> "select", vram_gb |-> vram_gb,
               models |-> select_models_for_vram(vram_gb)]
    /\ UNCHANGED <<benchmarks, added, dest>>

MaxIdLen == 4

IdAlphabet == {"0", "1", "2", "3", "4", "5", "7", "8", "b", "B", "x"}

\* the model ids of up to MaxIdLen characters over IdAlphabet
IdInputs == UNION {[1..n -> IdAlphabet] : n \in 0..MaxIdLen}

\* the benchmark command asks for the category of a model id
GetModelCategory(chars) ==
    /\ out = NoOut
    /\ out' = [op |-> "category", model_id |-> chars,
               category |-> get_model_category(chars)]
    /\ UNCHANGED <<benchmarks, added, dest>>

ModelsInit ==
    /\ StoreInit
    /\ hadStore = TRUE
    /\ benchmarks = <<>>
    /\ out = NoOut
    /\ dest = NoFile

ModelsNext ==
    /\ \/ \E v \in 0..MaxVram : SelectModels(v)
       \/ /\ out = NoOut
          /\ \E chars \in IdInputs : GetModelCategory(chars)
       \/ Return
    /\ UNCHANGED otherStoreVars

SpecModels == ModelsInit /\ [][ModelsNext]_vars

(***************************************************************************)
(* commands/benchmark.py: one invocation of the benchmark command.  out    *)
(* holds the position of the command; times are in seconds, tokens/sec in  *)
(* tenths.                                                                 *)
(***************************************************************************)
Prompt(name, category, expected_tokens) ==
    [name |-> name, category |-> category, prompt |-> <<"prompt", name>>,
     expected_tokens |-> expected_tokens]

TEST_PROMPTS ==
    << Prompt("Simple function", "coding", 100),
       Prompt("Code review", "coding", 200),
       Prompt("Algorithm explanation", "coding", 400),
       Prompt("Complex refactoring", "coding", 500),
       Prompt("Multi-file code analysis", "context_heavy", 800),
       Prompt("Refactor with context", "context_heavy", 1000),
       Prompt("Debug trace analysis", "context_heavy", 600),
       Prompt("Architecture explanation", "context_heavy", 800),
       Prompt("Problem decomposition", "reasoning", 300),
       Prompt("Design trade-offs analysis", "reasoning", 400),
       Prompt("Algorithmic optimization reasoning", "reasoning", 500),
       Prompt("System design", "reasoning", 600) >>

\* the values of the --category option
CategoryChoices == {"all", "coding", "context_heavy", "reasoning"}

_select_tests(category) ==
    IF category = "all" THEN TEST_PROMPTS
    ELSE SelectSeq(TEST_PROMPTS, LAMBDA t : t.category = category)

\* the session the command runs on
BenchSession ==
    [type |-> G1, model_id |-> "Qwen2.5-Coder-70B-AWQ", hourly_cost |-> 300]

\* what the server does with one request: an error or a timeout, or a
\* completion after elapsed_time seconds
Replies ==
    { [ok |-> FALSE, elapsed_time |-> 0, prompt_tokens |-> 0, completion_tokens |-> 0],
      [ok |-> TRUE, elapsed_time |-> 2, prompt_tokens |-> 50, completion_tokens |-> 90] }

\* run_single_prompt; none stands for the return value None
run_single_prompt(reply) ==
    IF ~reply.ok THEN [none |-> TRUE]
    ELSE [none |-> FALSE,
          success |-> TRUE,
          elapsed_time |-> reply.elapsed_time,
          prompt_tokens |-> reply.prompt_tokens,
          completion_tokens |-> reply.completion_tokens,
          total_tokens |-> reply.prompt_tokens + reply.completion_tokens,
          tokens_per_sec |-> IF reply.elapsed_time > 0
                             THEN (reply.completion_tokens * 10) \div reply.elapsed_time
                             ELSE 0]

\* the entry that _run_benchmark_tests appends for a test and its result
TestEntry(test, result) ==
    IF ~result.none
    THEN [test_name |-> test.name, category |-> test.category, prompt |-> test.prompt,
          expected_tokens |-> test.expected_tokens,
          success |-> result.success,
          elapsed_time |-> result.elapsed_time,
          prompt_tokens |-> result.prompt_tokens,
          completion_tokens |-> result.completion_tokens,
          total_tokens |-> result.total_tokens,
          tokens_per_sec |-> result.tokens_per_sec]
    ELSE [test_name |-> test.name, category |-> test.category, prompt |-> test.prompt,
          success |-> FALSE]

RECURSIVE SumKey(_, _)
SumKey(rs, key) == IF rs = <<>> THEN 0 ELSE Head(rs)[key] + SumKey(Tail(rs), key)

BenchCategories == <<"coding", "context_heavy", "reasoning">>

\* _build_results_by_category: the categories with a successful result
CoveredCategories(successful_results) ==
    {BenchCategories[k] : k \in {j \in 1..Len(BenchCategories) :
        \E i \in 1..Len(successful_results) :
            successful_results[i].category = BenchCategories[j]}}

_build_results_by_category(successful_results, hourly_cost) ==
    [cat \in CoveredCategories(successful_results) |->
        LET cat_results == SelectSeq(successful_results, LAMBDA r : r.category = cat)
            cat_avg_tps == SumKey(cat_results, "tokens_per_sec") \div Len(cat_results)
        IN  [avg_tokens_per_sec |-> cat_avg_tps,
             total_time |-> SumKey(cat_results, "elapsed_time"),
             total_tokens |-> SumKey(cat_results, "completion_tokens"),
             cost_per_1k_tokens |-> calculate_cost_per_1k_tokens(cat_avg_tps, hourly_cost),
             tests_passed |-> Len(cat_results)]]

\* _aggregate_results: the summary
Summary(successful_results, selected_tests, hourly_cost) ==
    LET avg_tokens_per_sec ==
            SumKey(successful_results, "tokens_per_sec") \div Len(successful_results)
    IN  [avg_tokens_per_sec |-> avg_tokens_per_sec,
         total_time |-> SumKey(successful_results, "elapsed_time"),
         total_tokens |-> SumKey(successful_results, "completion_tokens"),
         cost_per_1k_tokens |-> calculate_cost_per_1k_tokens(avg_tokens_per_sec, hourly_cost),
         tests_passed |-> Len(successful_results),
         tests_total |-> Len(selected_tests)]

_build_output_data(category, results_by_category, summary, results) ==
    [timestamp |-> 1,
     model |-> BenchSession.model_id,
     vm_type |-> BenchSession.type,
     hourly_cost |-> BenchSession.hourly_cost,
     category_filter |-> category,
     results_by_category |-> results_by_category,
     summary |-> summary,
     tests |-> results]

\* a command that gives up as soon as one test failed
successful_results_unless_any_failed(results) ==
    IF \E i \in 1..Len(results) : ~results[i].success THEN <<>>
    ELSE results

\* cmd: [r for r in results if r.get("success", False)]
successful_results(results) == SelectSeq(results, LAMBDA r : r.success)

\* cmd up to the loop of _run_benchmark_tests
StartBenchmark(category, save_to_db) ==
    /\ out = NoOut
    /\ LET selected_tests == _select_tests(category)
       IN  out' = [op |-> "benchmark",
                   pc |-> IF selected_tests = <<>> THEN "aborted" ELSE "next_test",
                   category |-> category, save_to_db |-> save_to_db,
                   selected_tests |-> selected_tests,
                   sent |-> <<>>, results |-> <<>>, output_data |-> <<>>]
    /\ UNCHANGED <<benchmarks, added, dest>>

\* one iteration of the loop, up to requests.post
SendPrompt ==
    /\ out.op = "benchmark" /\ out.pc = "next_test"
    /\ Len(out.results) < Len(out.selected_tests)
    /\ out' = [out EXCEPT !.pc = "waiting",
                          !.sent = Append(@, out.selected_tests[Len(out.results) + 1].prompt)]
    /\ UNCHANGED <<benchmarks, added, dest>>

\* the rest of the iteration: the request ends and the entry is appended
RecordResult(reply) ==
    /\ out.op = "benchmark" /\ out.pc = "waiting"
    /\ LET test == out.selected_tests[Len(out.results) + 1]
       IN  out' = [out EXCEPT !.pc = "next_test",
                              !.results = Append(@, TestEntry(test, run_single_prompt(reply)))]
    /\ UNCHANGED <<benchmarks, added, dest>>

\* cmd after the loop: abort, or aggregate, write the output file and save
\* the run to the store
FinishBenchmark ==
    /\ out.op = "benchmark" /\ out.pc = "next_test"
    /\ Len(out.results) = Len(out.selected_tests)
    /\ LET successful == successful_results(out.results)
           hourly_cost == BenchSession.hourly_cost
           summary == Summary(successful, out.selected_tests, hourly_cost)
           results_by_category == _build_results_by_category(successful, hourly_cost)
           output_data == _build_output_data(out.category, results_by_category,
                                             summary, out.results)
           id == Len(benchmarks) + 1
       IN  IF successful = <<>>
           THEN /\ out' = [out EXCEPT !.pc = "aborted"]
                /\ UNCHANGED <<benchmarks, added, dest>>
           ELSE /\ out' = [out EXCEPT !.pc = "done", !.output_data = <<output_data>>]
                /\ dest' = [exists |-> TRUE, text |-> <<output_data>>]
                /\ IF out.save_to_db
                   THEN /\ benchmarks' =
                              Append(benchmarks,
                                     StoredRecord(id, output_data.timestamp,
                                                  BenchSession.type, BenchSession.model_id,
                                                  hourly_cost, summary.avg_tokens_per_sec,
                                                  [c \in DOMAIN results_by_category |->
                                                      results_by_category[c].avg_tokens_per_sec]))
                        /\ added' = added \cup {create_result("cli", id)}
                   ELSE UNCHANGED <<benchmarks, added>>

BenchInit ==
    /\ StoreInit
    /\ hadStore = TRUE
    /\ benchmarks = <<>>
    /\ out = NoOut
    /\ dest = NoFile

BenchNext ==
    /\ \/ \E category \in CategoryChoices, save_to_db \in BOOLEAN :
             StartBenchmark(category, save_to_db)
       \/ SendPrompt
       \/ \E reply \in Replies : RecordResult(reply)
       \/ FinishBenchmark
    /\ UNCHANGED otherStoreVars

SpecBench == BenchInit /\ [][BenchNext]_vars

(***************************************************************************)
(* Properties of the query and recommendation path.                        *)
(***************************************************************************)
IsQuery == out.op = "query"
IsRecommend == out.op = "recommend"

\* the filters of the claims, stated on a stored entry
MatchesQuery(e, gpu_type, model_category, task_category) ==
    /\ WellFormedEntry(e)
    /\ gpu_type = NoFilter \/ e.gpu_type = gpu_type
    /\ model_category = NoFilter \/ e.model_category = model_category
    /\ task_category = NoTask \/ task_category \in DOMAIN e.results_by_category

InBand(budget, cost) ==
    \/ budget = "under_1" /\ cost < 100
    \/ budget = "1_to_3" /\ cost >= 100 /\ cost <= 300
    \/ budget = "over_3" /\ cost > 300
    \/ budget = "no_constraint"

\* positions of the stored records that pass the task-category and budget
\* filters of the last recommend call
FilteredIdx ==
    {i \in 1..Len(benchmarks) :
        /\ MatchesQuery(benchmarks[i], NoFilter, NoFilter,
                        IF out.task_type = "mixed" THEN NoTask ELSE out.task_type)
        /\ InBand(out.budget, benchmarks[i].hourly_cost)}

\* positions of the filtered records of the configuration of rec
GroupIdx(rec) ==
    {i \in FilteredIdx : /\ benchmarks[i].gpu_type = rec.gpu_type
                         /\ benchmarks[i].model_category = rec.model_category}

RECURSIVE SumIdx(_, _)
SumIdx(S, field) ==
    IF S = {} THEN 0
    ELSE LET i == CHOOSE x \in S : TRUE
         IN  benchmarks[i].summary[field] + SumIdx(S \ {i}, field)

MaxIdx(S) == CHOOSE i \in S : \A j \in S : j <= i

\* C3: a query on a store with malformed entries does not raise and
\* returns every well-formed record that matches the filters, in stored
\* order.
C3_QueryToleratesMalformed ==
    IsQuery =>
        /\ ~out.raised
        /\ LET M == {i \in 1..Len(benchmarks) :
                       MatchesQuery(benchmarks[i], out.gpu_type,
                                    out.model_category, out.task_category)}
           IN  \A i \in M : \E k \in 1..Len(out.results) :
                  /\ out.results[k] = benchmarks[i]
                  /\ \A j \in M : j < i =>
                        \E l \in 1..(k - 1) : out.results[l] = benchmarks[j]

\* C4: recommend never raises, and returns the empty list when no stored
\* record passes the task-category and budget filters.
C4_RecommendNeverRaises ==
    IsRecommend =>
        /\ ~out.raised
        /\ FilteredIdx = {} => out.recs = <<>>

\* C5: in the returned list no recommendation of a lower confidence level
\* precedes one of a higher level (High, then Medium, then Low).
C5_ConfidenceFirst ==
    (IsRecommend /\ ~out.raised) =>
        \A i, j \in 1..Len(out.recs) : i < j =>
            /\ out.recs[i].confidence_level = "Low"
                  => out.recs[j].confidence_level \notin {"High", "Medium"}
            /\ out.recs[i].confidence_level = "Medium"
                  => out.recs[j].confidence_level # "High"

\* a High recommendation is returned before a Low one of strictly higher
\* cost-efficiency
C5_Witness ==
    /\ IsRecommend /\ ~out.raised /\ Len(out.recs) >= 2
    /\ out.recs[1].confidence_level = "High"
    /\ out.recs[2].confidence_level = "Low"
    /\ RatLess(out.recs[1].cost_efficiency, out.recs[2].cost_efficiency)

SameRank(a, b) ==
    /\ a.confidence_level = b.confidence_level
    /\ RatEq(a.cost_efficiency, b.cost_efficiency)

\* C6: with SMALLEST_VIABLE, of two recommendations of equal confidence
\* and equal cost-efficiency the one with the smaller total VRAM is first.
C6_SmallestViableFirst ==
    (IsRecommend /\ ~out.raised /\ out.pref = "smallest_viable") =>
        \A i, j \in 1..Len(out.ranked) :
            (i < j /\ SameRank(out.ranked[i], out.ranked[j]))
                => out.ranked[i].total_vram <= out.ranked[j].total_vram

\* C7: with LARGEST_AVAILABLE, of two recommendations of equal confidence
\* and equal cost-efficiency the one with the larger total VRAM is first.
C7_LargestAvailableFirst ==
    (IsRecommend /\ ~out.raised /\ out.pref = "largest_available") =>
        \A i, j \in 1..Len(out.ranked) :
            (i < j /\ SameRank(out.ranked[i], out.ranked[j]))
                => out.ranked[i].total_vram >= out.ranked[j].total_vram

C9_OnePerConfig ==
    (IsRecommend /\ ~out.raised) =>
        LET Pairs == {<<benchmarks[i].gpu_type, benchmarks[i].model_category>> :
                        i \in FilteredIdx}
        IN  /\ Len(out.ranked) = Cardinality(Pairs)
            /\ \A pr \in Pairs : \E k \in 1..Len(out.ranked) :
                  /\ out.ranked[k].gpu_type = pr[1]
                  /\ out.ranked[k].model_category = pr[2]
                  /\ out.ranked[k].num_benchmark_runs =
                        Cardinality({i \in FilteredIdx :
                            /\ benchmarks[i].gpu_type = pr[1]
                            /\ benchmarks[i].model_category = pr[2]})

\* two configurations share the GPU type and differ in the model
\* category, a third shares the category of one of them, one has two runs
C9_Witness ==
    /\ IsRecommend /\ ~out.raised
    /\ \E i, j, k \in 1..Len(out.ranked) :
          /\ out.ranked[i].gpu_type = out.ranked[j].gpu_type
          /\ out.ranked[i].model_category # out.ranked[j].model_category
          /\ out.ranked[k].gpu_type # out.ranked[i].gpu_type
          /\ out.ranked[k].model_category = out.ranked[i].model_category
          /\ out.ranked[i].num_benchmark_runs = 2

\* C10: avg_tokens_per_sec and cost_per_1k_tokens of a recommendation are
\* the arithmetic means over all records of its group; a group with
\* throughputs 44, 45 and 46 gives throughput 45.0 and 3 runs.
C10_GroupMeans ==
    (IsRecommend /\ ~out.raised) =>
        \A k \in 1..Len(out.ranked) :
            LET G == GroupIdx(out.ranked[k])
                rec == out.ranked[k]
            IN  /\ rec.avg_tokens_per_sec.n * Cardinality(G)
                      = SumIdx(G, "avg_tokens_per_sec") * rec.avg_tokens_per_sec.d
                /\ rec.cost_per_1k_tokens.n * Cardinality(G)
                      = SumIdx(G, "cost_per_1k_tokens") * rec.cost_per_1k_tokens.d
                /\ (/\ Cardinality(G) = 3
                    /\ {benchmarks[i].summary.avg_tokens_per_sec : i \in G}
                          = {440, 450, 460})
                      => /\ RatEq(rec.avg_tokens_per_sec, Rat(450, 1))
                         /\ rec.num_benchmark_runs = 3

\* the group of three runs with 44, 45 and 46 tokens/sec, whose last
\* record has 46
C10_Witness ==
    /\ IsRecommend /\ ~out.raised
    /\ \E k \in 1..Len(out.ranked) :
          /\ out.ranked[k].num_benchmark_runs = 3
          /\ {benchmarks[i].summary.avg_tokens_per_sec : i \in GroupIdx(out.ranked[k])}
                = {440, 450, 460}
          /\ benchmarks[MaxIdx(GroupIdx(out.ranked[k]))].summary.avg_tokens_per_sec = 460
          /\ RatEq(out.ranked[k].avg_tokens_per_sec, Rat(450, 1))
          /\ ~RatEq(out.ranked[k].cost_per_1k_tokens,
                    Rat(benchmarks[MaxIdx(GroupIdx(out.ranked[k]))].summary.cost_per_1k_tokens, 1))

\* C11: gpu_type, gpu_count, total_vram, model_id, model_category and
\* hourly_cost of a recommendation are those of the record of its group
\* that was added to the store last.
C11_IdentityFromLastRecord ==
    (IsRecommend /\ ~out.raised) =>
        \A k \in 1..Len(out.ranked) :
            LET rec == out.ranked[k]
                last == benchmarks[MaxIdx(GroupIdx(rec))]
            IN  /\ rec.gpu_type = last.gpu_type
                /\ rec.gpu_count = last.gpu_count
                /\ rec.total_vram = last.total_vram
                /\ rec.model_id = last.model_id
                /\ rec.model_category = last.model_category
                /\ rec.hourly_cost = last.hourly_cost

\* a group whose first and last record differ in hourly cost
C11_Witness ==
    /\ IsRecommend /\ ~out.raised
    /\ \E k \in 1..Len(out.ranked) :
          LET G == GroupIdx(out.ranked[k])
          IN  /\ Cardinality(G) >= 2
              /\ \E i \in G : benchmarks[i].hourly_cost # out.ranked[k].hourly_cost
              /\ out.ranked[k].hourly_cost = benchmarks[MaxIdx(G)].hourly_cost

\* C12: the confidence level is High for 3 or more runs, Medium for 2, Low
\* for 1 and None for 0; every returned recommendation carries the level of
\* its num_benchmark_runs, and None is never returned.
C12_ConfidenceMatchesRuns ==
    (IsRecommend /\ ~out.raised) =>
        /\ \A n \in 0..(Len(benchmarks) + 1) :
              calculate_confidence(n)[1] =
                 (IF n >= 3 THEN "High" ELSE IF n = 2 THEN "Medium"
                  ELSE IF n = 1 THEN "Low" ELSE "None")
        /\ \A k \in 1..Len(out.recs) :
              LET rec == out.recs[k]
                  n == Cardinality(GroupIdx(rec))
              IN  /\ rec.num_benchmark_runs = n
                  /\ rec.confidence_level # "None"
                  /\ rec.confidence_level = "High" <=> n >= 3
                  /\ rec.confidence_level = "Medium" <=> n = 2
                  /\ rec.confidence_level = "Low" <=> n = 1

\* a High and a Medium recommendation are returned together
C12_Witness ==
    /\ IsRecommend /\ ~out.raised /\ Len(out.recs) = 2
    /\ out.recs[1].confidence_level = "High" /\ out.recs[1].num_benchmark_runs >= 3
    /\ out.recs[2].confidence_level = "Medium" /\ out.recs[2].num_benchmark_runs = 2

\* the records get_results hands to the budget filter of the last
\* recommend call: the well-formed entries that have the task category
TaskFiltered ==
    SelectSeq(benchmarks,
              LAMBDA e : MatchesQuery(e, NoFilter, NoFilter,
                             IF out.task_type = "mixed" THEN NoTask ELSE out.task_type))

\* C13: the budget filter keeps, in order, exactly the records whose
\* hourly_cost is in the band (< 1.0, 1.0 to 3.0 inclusive, > 3.0); every
\* record is kept by exactly one of the three bands; NO_CONSTRAINT keeps
\* them all; every returned recommendation has its hourly_cost in the
\* requested band.
C13_BudgetBands ==
    (IsRecommend /\ ~out.raised) =>
        /\ \A b \in BudgetConstraints :
              _filter_by_budget(TaskFiltered, b)
                 = SelectSeq(TaskFiltered, LAMBDA e : InBand(b, e.hourly_cost))
        /\ \A i \in 1..Len(TaskFiltered) :
              Cardinality({b \in {"under_1", "1_to_3", "over_3"} :
                  \E j \in 1..Len(_filter_by_budget(TaskFiltered, b)) :
                      _filter_by_budget(TaskFiltered, b)[j] = TaskFiltered[i]}) = 1
        /\ _filter_by_budget(TaskFiltered, "no_constraint") = TaskFiltered
        /\ \A k \in 1..Len(out.recs) : InBand(out.budget, out.recs[k].hourly_cost)

\* records at both ends of the middle band (1.00 and 3.00 dollars/hour)
\* pass the ONE_TO_THREE filter while a record at 3.50 is left out
C13_Witness ==
    /\ IsRecommend /\ ~out.raised /\ out.budget = "1_to_3"
    /\ \E i, j, k \in 1..Len(TaskFiltered) :
          /\ TaskFiltered[i].hourly_cost = 100
          /\ TaskFiltered[j].hourly_cost = 300
          /\ TaskFiltered[k].hourly_cost = 350
    /\ \E a, b \in 1..Len(out.ranked) :
          /\ out.ranked[a].hourly_cost = 100
          /\ out.ranked[b].hourly_cost = 300

\* C14: recommend returns at most limit recommendations, the first limit
\* entries of the full ranking: nothing left out has a smaller rank key
\* than a returned one, and fewer than limit configurations are all
\* returned.
C14_TruncatedToLimit ==
    (IsRecommend /\ ~out.raised) =>
        /\ Len(out.recs) <= out.limit
        /\ Len(out.recs) <= Len(out.ranked)
        /\ \A i \in 1..Len(out.recs) : out.recs[i] = out.ranked[i]
        /\ Len(out.ranked) <= out.limit => out.recs = out.ranked
        /\ Len(out.ranked) > out.limit => Len(out.recs) = out.limit
        /\ \A i \in 1..Len(out.recs), j \in (Len(out.recs) + 1)..Len(out.ranked) :
              ~RankKeyLess(out.ranked[j], out.recs[i], out.pref)

\* three configurations are ranked and the one left out has a strictly
\* greater rank key than the two returned
C14_Witness ==
    /\ IsRecommend /\ ~out.raised
    /\ Len(out.ranked) = 3 /\ out.limit = 2 /\ Len(out.recs) = 2
    /\ RankKeyLess(out.recs[2], out.ranked[3], out.pref)

\* C15: a query returns, in stored order, exactly the well-formed stored
\* records that match every supplied filter; restricting the result of the
\* query on gpu_type alone to a model category gives the result of the
\* query on both.
C15_QueryExactMatches ==
    IsQuery =>
        /\ ~out.raised
        /\ out.results =
              SelectSeq(benchmarks,
                        LAMBDA e : MatchesQuery(e, out.gpu_type, out.model_category,
                                                out.task_category))
        /\ out.model_category # NoFilter =>
              SelectSeq(get_results(benchmarks, out.gpu_type, NoFilter,
                                    out.task_category).results,
                        LAMBDA r : r.model_category = out.model_category)
                 = out.results

IsBest == out.op = "best"

\* the value of a record under a metric as the claims state it; the
\* cost-efficiency is throughput divided by hourly cost, 0 for an hourly
\* cost of 0 and, with negativeIsZero, for a negative one as well
MetricValue(r, metric, negativeIsZero) ==
    IF metric = "tokens_per_sec" THEN Rat(r.summary.avg_tokens_per_sec, 1)
    ELSE IF metric = "cost_per_1k_tokens" THEN Rat(r.summary.cost_per_1k_tokens, 1)
    ELSE IF r.hourly_cost = 0 \/ (negativeIsZero /\ r.hourly_cost < 0) THEN Rat(0, 1)
    ELSE IF r.hourly_cost > 0
         THEN Rat(10 * r.summary.avg_tokens_per_sec, r.hourly_cost)
    ELSE Rat(0 - 10 * r.summary.avg_tokens_per_sec, 0 - r.hourly_cost)

\* a ranks strictly better than b in the last best_by_metric call
RanksBetter(a, b, negativeIsZero) ==
    LET va == MetricValue(a, out.metric, negativeIsZero)
        vb == MetricValue(b, out.metric, negativeIsZero)
    IN  IF out.ascending THEN RatLess(va, vb) ELSE RatLess(vb, va)

\* the stored records the last best_by_metric call chooses from
BestCandidates ==
    {i \in 1..Len(benchmarks) :
        /\ benchmarks[i].shape = "object"
        /\ benchmarks[i].keys = ResultFields
        /\ out.task_category # NoTask =>
              /\ benchmarks[i].rbc_is_map
              /\ out.task_category \in DOMAIN benchmarks[i].results_by_category}

BestByMetricHolds(negativeIsZero) ==
    (IsBest /\ ~out.raised) =>
        /\ Len(out.results) <= out.limit
        /\ \A k \in 1..Len(out.results) :
              \E i \in BestCandidates : benchmarks[i] = out.results[k]
        /\ \A i, j \in 1..Len(out.results) :
              i < j => ~RanksBetter(out.results[j], out.results[i], negativeIsZero)
        /\ \A i \in BestCandidates :
              (\A k \in 1..Len(out.results) : out.results[k] # benchmarks[i])
                 => \A k \in 1..Len(out.results) :
                       ~RanksBetter(benchmarks[i], out.results[k], negativeIsZero)

C17_AddAppendsOne ==
    \A p \in Writers :
        (pc[p] = "idle" /\ started[p].alone) =>
            LET before == started[p].before
            IN  /\ Len(before) >= 2
                /\ dbIno # 0
                /\ \E rec \in added :
                      /\ rec.id[1] = p
                      /\ \A i \in 1..Len(before) : before[i].id # rec.id
                      /\ content[dbIno] =
                            SubSeq(before, 1, Len(before) - 1)
                               \o <<[k |-> "rec", id |-> rec.id]>>
                               \o <<before[Len(before)]>>

\* an add that ran alone on a store already holding another record
C17_Witness ==
    \E p \in Writers :
        /\ pc[p] = "idle" /\ started[p].alone
        /\ Len(started[p].before) = 3
        /\ Len(content[dbIno]) = 4

\* C18: when the rename of an add fails, the error reaches the caller and
\* the store file is as it was: it parses, and a later query does not
\* return the record of the failed add.
C18_FailedAddLeavesStore ==
    hadStore =>
        \A p \in Writers :
            (pc[p] = "raised_move" /\ op[p] = "add") =>
                /\ dbIno # 0
                /\ WellFormed(content[dbIno])
                /\ data[p][Len(data[p])] \notin Range(StoredList)

IsCoverage == out.op = "coverage"

\* positions of the stored entries that are BenchmarkResult records
ReadableIdx ==
    {i \in 1..Len(benchmarks) :
        benchmarks[i].shape = "object" /\ benchmarks[i].keys = ResultFields}

\* positions of the records of one (gpu_type, model_category) pair
PairIdx(gpu_type, model_category) ==
    {i \in ReadableIdx : /\ benchmarks[i].gpu_type = gpu_type
                         /\ benchmarks[i].model_category = model_category}

RECURSIVE SumCounts(_)
SumCounts(configs) ==
    IF configs = <<>> THEN 0 ELSE Head(configs).count + SumCounts(Tail(configs))

\* C19: tested_configs has exactly one entry per distinct (gpu_type,
\* model_category) pair of the stored records; its count is the number of
\* records of the pair and its last_run their greatest timestamp; the
\* counts sum to total_benchmarks; the entries are in descending order of
\* last_run.
C19_CoverageReport ==
    IsCoverage =>
        LET tc == out.report.tested_configs
            Pairs == {<<benchmarks[i].gpu_type, benchmarks[i].model_category>> :
                         i \in ReadableIdx}
        IN  /\ Len(tc) = Cardinality(Pairs)
            /\ \A pr \in Pairs : \E k \in 1..Len(tc) :
                  /\ tc[k].gpu_type = pr[1]
                  /\ tc[k].model_category = pr[2]
                  /\ tc[k].count = Cardinality(PairIdx(pr[1], pr[2]))
                  /\ \E i \in PairIdx(pr[1], pr[2]) :
                        /\ tc[k].last_run = benchmarks[i].timestamp
                        /\ \A j \in PairIdx(pr[1], pr[2]) :
                              benchmarks[j].timestamp <= tc[k].last_run
            /\ SumCounts(tc) = out.report.total_benchmarks
            /\ out.report.total_benchmarks = Cardinality(ReadableIdx)
            /\ \A i, j \in 1..Len(tc) : i < j => tc[i].last_run >= tc[j].last_run

\* a report of two or more configurations in which the first one has
\* several runs and its last_run is not the timestamp of its last record
C19_Witness ==
    /\ IsCoverage
    /\ Len(out.report.tested_configs) >= 2
    /\ LET c == out.report.tested_configs[1]
           G == PairIdx(c.gpu_type, c.model_category)
       IN  /\ c.count >= 2
           /\ c.count = Cardinality(G)
           /\ benchmarks[MaxIdx(G)].timestamp < c.last_run
    /\ out.report.tested_configs[1].last_run > out.report.tested_configs[2].last_run

IsExport == out.op = "export"

\* C20: export with a format other than json, csv and markdown raises the
\* unsupported-format error, and the step leaves the output file and the
\* store as they were.
C20_UnsupportedFormat ==
    [][(out'.op = "export" /\ out'.format \notin {"json", "csv", "markdown"})
          => /\ out'.raised = "ValueError"
             /\ dest' = dest
             /\ benchmarks' = benchmarks]_vars

\* an export with an unknown format on a non-empty store, the output path
\* holding a file that differs from every export of the store
C20_Witness ==
    /\ IsExport /\ out.format = "xml" /\ out.raised = "ValueError"
    /\ benchmarks # <<>>
    /\ dest.exists
    /\ \A f \in ExportFormats : dest # export(benchmarks, f, dest).dest

\* C21: after any sequence of adds, by concurrent processes as well, no
\* two records of the stored list have the same id.
C21_UniqueIds ==
    \A i, j \in 1..Len(StoredList) :
        i # j => StoredList[i].id # StoredList[j].id

\* the store holds the records of the adds of two processes
C21_Witness ==
    /\ Len(StoredList) >= 2
    /\ \E i, j \in 1..Len(StoredList) : StoredList[i].id[1] # StoredList[j].id[1]

\* C22: every record of the store, and every record that a query returns,
\* has total_vram = gpu_count * vram_per_gpu.
C22_TotalVram ==
    /\ \A i \in ReadableIdx :
          benchmarks[i].total_vram = benchmarks[i].gpu_count * benchmarks[i].vram_per_gpu
    /\ (IsQuery /\ ~out.raised) =>
          \A k \in 1..Len(out.results) :
              out.results[k].total_vram
                 = out.results[k].gpu_count * out.results[k].vram_per_gpu

\* a query returns records of the two GPU types, 2 x 48 GB and 2 x 20 GB
C22_Witness ==
    /\ IsQuery /\ ~out.raised
    /\ \E k, l \in 1..Len(out.results) :
          /\ out.results[k].total_vram = 96 /\ out.results[k].vram_per_gpu = 48
          /\ out.results[l].total_vram = 40 /\ out.results[l].vram_per_gpu = 20

IsSelect == out.op = "select"

\* the catalog models that fit a VRAM capacity
Fitting(vram_gb) ==
    {i \in 1..Len(MODEL_CATEGORIES) : MODEL_CATEGORIES[i].min_vram_gb <= vram_gb}

\* C23: when at least one catalog model fits the capacity, between 1 and 3
\* models are selected, without duplicates, each fitting the capacity; the
\* selection is empty only when no catalog model fits.
C23_SelectionSize ==
    IsSelect =>
        /\ Len(out.models) <= 3
        /\ \A i \in 1..Len(out.models) :
              /\ out.models[i].min_vram_gb <= out.vram_gb
              /\ \E c \in Fitting(out.vram_gb) : MODEL_CATEGORIES[c] = out.models[i]
              /\ \A j \in 1..Len(out.models) : i # j => out.models[i] # out.models[j]
        /\ Fitting(out.vram_gb) # {} <=> Len(out.models) >= 1

\* size classes, largest last
CategoryRank(category) ==
    IF category = "70b" THEN 4 ELSE IF category = "30b" THEN 3
    ELSE IF category = "14b" THEN 2 ELSE 1

\* C24: the first selected model is the quantized model of the largest
\* category that fits the capacity; a full-precision model is selected only
\* for a capacity of 80 GB or more and is of a strictly lower size
\* category than that quantized model.
C24_PrimaryAndFullPrecision ==
    (IsSelect /\ out.models # <<>>) =>
        /\ IsQuantized(out.models[1])
        /\ \A c \in Fitting(out.vram_gb) :
              IsQuantized(MODEL_CATEGORIES[c]) =>
                 CategoryRank(MODEL_CATEGORIES[c].category)
                    <= CategoryRank(out.models[1].category)
        /\ \A i \in 1..Len(out.models) :
              out.models[i].quantization = "full" =>
                 /\ out.vram_gb >= 80
                 /\ CategoryRank(out.models[i].category)
                       < CategoryRank(out.models[1].category)

IsCategory == out.op = "category"

\* the id holds the marker somewhere, letters compared without case
HasMarker(id, marker) ==
    \E i \in 1..Len(id) :
        /\ i + Len(marker) - 1 <= Len(id)
        /\ \A k \in 1..Len(marker) :
              IF marker[k] = "b" THEN id[i + k - 1] \in {"b", "B"}
              ELSE id[i + k - 1] = marker[k]

HasClass70(id) == HasMarker(id, <<"7", "0", "b">>) \/ HasMarker(id, <<"7", "2", "b">>)
HasClass30(id) ==
    \/ HasMarker(id, <<"3", "0", "b">>) \/ HasMarker(id, <<"3", "2", "b">>)
    \/ HasMarker(id, <<"3", "3", "b">>)
HasClass14(id) == HasMarker(id, <<"1", "4", "b">>) \/ HasMarker(id, <<"1", "5", "b">>)
HasClass7(id) == HasMarker(id, <<"7", "b">>) \/ HasMarker(id, <<"8", "b">>)
HasClassSmall(id) == HasMarker(id, <<"3", "b">>) \/ HasMarker(id, <<"1", "b">>)

\* C25: get_model_category ignores letter case and gives the largest class
\* of which the id holds a marker: 70b or 72b gives 70b; otherwise 30b, 32b
\* or 33b gives 30b; otherwise 14b or 15b gives 14b; otherwise 7b or 8b
\* gives 7b; otherwise 3b or 1b gives small; otherwise unknown.
C25_CategoryByLargestMarker ==
    IsCategory =>
        out.category =
            IF HasClass70(out.model_id) THEN "70b"
            ELSE IF HasClass30(out.model_id) THEN "30b"
            ELSE IF HasClass14(out.model_id) THEN "14b"
            ELSE IF HasClass7(out.model_id) THEN "7b"
            ELSE IF HasClassSmall(out.model_id) THEN "small"
            ELSE "unknown"

\* an id in capitals with markers of two classes gets the larger class
C25_Witness ==
    /\ IsCategory
    /\ out.model_id = <<"7", "B", "1", "B">>
    /\ out.category = "7b"

IsBenchmark == out.op = "benchmark"

Finished == IsBenchmark /\ out.pc \in {"done", "aborted"}

Passed == {i \in 1..Len(out.results) : out.results[i].success}

\* C26: the prompts are sent one at a time in suite order and every prompt
\* sent gets exactly one test entry, a failed one with success = FALSE and
\* no timing fields; the run aborts without a record exactly when every
\* prompt failed, and every record has 1 <= tests_passed <= tests_total.
C26_BenchmarkRun ==
    IsBenchmark =>
        /\ Len(out.sent) <= Len(out.selected_tests)
        /\ \A k \in 1..Len(out.sent) : out.sent[k] = out.selected_tests[k].prompt
        /\ Len(out.sent) - Len(out.results) = (IF out.pc = "waiting" THEN 1 ELSE 0)
        /\ \A k \in 1..Len(out.results) :
              /\ out.results[k].test_name = out.selected_tests[k].name
              /\ ~out.results[k].success =>
                    DOMAIN out.results[k] = {"test_name", "category", "prompt", "success"}
        /\ Finished =>
              /\ Len(out.results) = Len(out.selected_tests)
              /\ (out.pc = "aborted") <=> (Passed = {})
        /\ out.pc = "aborted" =>
              /\ out.output_data = <<>> /\ dest = NoFile /\ benchmarks = <<>>
        /\ out.pc = "done" =>
              /\ Len(out.output_data) = 1
              /\ dest.exists /\ dest.text = out.output_data
              /\ out.output_data[1].summary.tests_passed >= 1
              /\ out.output_data[1].summary.tests_passed
                    <= out.output_data[1].summary.tests_total
              /\ out.output_data[1].summary.tests_passed = Cardinality(Passed)
              /\ out.output_data[1].summary.tests_total = Len(out.selected_tests)
              /\ out.output_data[1].tests = out.results

\* a complete run of all twelve prompts in which only the last one succeeded
C26_Witness ==
    /\ IsBenchmark /\ out.pc = "done"
    /\ out.category = "all"
    /\ Passed = {12}
    /\ out.output_data[1].summary.tests_passed = 1
    /\ out.output_data[1].summary.tests_total = 12

\* the locked sections: between flock and LOCK_UN of _read_database and of
\* _write_database
InReadSection(p) == pc[p] = "r_load"
InWriteSection(p) == pc[p] = "w_dump"

\* C27: on a store that existed before the processes started, no reader is
\* inside its locked section while a writer is inside its locked section,
\* no two writers are inside their locked sections together, and a process
\* outside its locked sections, also one whose operation failed, holds no
\* lock.
C27_LocksExclude ==
    hadStore =>
        /\ \A r, w \in Procs :
              r # w => ~(InReadSection(r) /\ InWriteSection(w))
        /\ \A v, w \in Procs :
              v # w => ~(InWriteSection(v) /\ InWriteSection(w))
        /\ \A p \in Procs :
              (~InReadSection(p) /\ ~InWriteSection(p)) =>
                  \A i \in Inodes : p \notin lockSh[i] /\ lockEx[i] # p

\* C28: constructing a BenchmarkDatabase on an existing file changes no
\* file, and the step that completes a creation of the empty store removes
\* no record of a completed add from the store file.
C28_CreationKeepsAdds ==
    [][\A p \in Procs :
          /\ (pc[p] = "init" /\ dbIno # 0 /\ pc'[p] # "init") =>
                (dbIno' = dbIno /\ content' = content)
          /\ (pc[p] = "w_move" /\ op[p] = "ensure" /\ pc'[p] = "idle") =>
                \A rec \in added :
                    rec \in Range(StoredList) => rec \in Range(StoredList')]_vars

\* the timestamp of a record of the store file
TimestampOf(rec) == stamp[rec.id[1]][rec.id[2]]

\* C29: on a store that existed before the processes started, the records
\* of the stored list are in the order of their timestamps, so that the
\* last record of a group is the one with the greatest timestamp.
C29_StoredInTimestampOrder ==
    hadStore =>
        \A i, j \in 1..Len(StoredList) :
            i < j => TimestampOf(StoredList[i]) <= TimestampOf(StoredList[j])

\* the sum over the records at positions S of a field of their
\* results_by_category entry for category
RECURSIVE SumCategoryIdx(_, _, _)
SumCategoryIdx(S, category, field) ==
    IF S = {} THEN 0
    ELSE LET i == CHOOSE x \in S : TRUE
         IN  benchmarks[i].results_by_category[category][field]
                + SumCategoryIdx(S \ {i}, category, field)

\* C30: for a single task type every recommendation names that category in
\* task_category, and its avg_tokens_per_sec and cost_per_1k_tokens are the
\* means of the results_by_category entries for that category of the
\* records of its group.
C30_CategoryMeans ==
    (IsRecommend /\ ~out.raised /\ out.task_type \in TaskCategories) =>
        \A k \in 1..Len(out.ranked) :
            LET G == GroupIdx(out.ranked[k])
                rec == out.ranked[k]
            IN  /\ rec.task_category = out.task_type
                /\ rec.avg_tokens_per_sec.n * Cardinality(G)
                      = SumCategoryIdx(G, out.task_type, "avg_tokens_per_sec")
                           * rec.avg_tokens_per_sec.d
                /\ rec.cost_per_1k_tokens.n * Cardinality(G)
                      = SumCategoryIdx(G, out.task_type, "cost_per_1k_tokens")
                           * rec.cost_per_1k_tokens.d

====
